---- MODULE Spec2Model ----
(***************************************************************************)
(* Model of girder's S3 assetstore adapter (s3_assetstore_adapter.py) and  *)
(* of the upload / file layer that drives it.  The adapter's methods are   *)
(* pure operators over (document, bucket) pairs, translated from the       *)
(* Python; the request handlers that call them are the actions.            *)
(***************************************************************************)
EXTENDS Integers, Sequences, FiniteSets, TLC

(***************************************************************************)
(* Program constants and model bounds                                      *)
(***************************************************************************)
CHUNK_LEN == 33554432

MaxUploads == 1
MaxFiles == 2
MaxMp == 1
MaxRaceMp == 2
MaxAssetstores == 3

\* declared sizes: empty, single-shot, multipart
Sizes == {0, 2048, CHUNK_LEN + 1024}
\* lengths of the byte chunks a client sends
ChunkLens == {1024, 2048, CHUNK_LEN}
\* offsets a client claims
Offsets == {0, 1024, CHUNK_LEN}
\* values of the minimum chunk size setting
MinChunkSizes == {0, 2048}
\* assetstore types an upload can be routed to
Stores == {"s3", "fs"}
Names == {"test"}

BucketName == "b"
Prefix == "test"
\* objects that exist in the bucket before girder touches it; a key is the
\* sequence of its '/'-separated segments
ImportPath == <<"ext">>
ImportObjects == (<<"ext", "test">> :> 1024)

\* the folder the uploads and the imports go to, in a user's space
UploadFolder == 0
InitFolders ==
    (UploadFolder :> [parentType |-> "user", parent |-> 0, name |-> "Private"])

\* the assetstore a fresh server has, and the names and types of new ones
InitAssetstores == (1 :> [name |-> "Test", type |-> "fs", current |-> TRUE])
AssetstoreIds == 1..MaxAssetstores
AssetstoreNames == {"Test", "New Name", "Another Store"}

\* upload ids a client acknowledgment may name; 0 was never issued by S3
AckUploadIds == {0, 1}
AckPartNumbers == {1}

(***************************************************************************)
(* Documents are records whose set of fields grows, as Python dicts do     *)
(***************************************************************************)
Has(d, k) == k \in DOMAIN d

Put(d, k, v) == (k :> v) @@ d

Without(f, k) == [x \in DOMAIN f \ {k} |-> f[x]]

Ok == [kind |-> "ok", msg |-> <<"ok">>]

ValidationException(m) == [kind |-> "validation", msg |-> m]

RawException(m) == [kind |-> "raw", msg |-> m]

MsgOffset == "Server has received %s bytes, but client sent offset %s."
MsgTooMany == "Received too many bytes."
MsgTooSmall == "Chunk is smaller than the minimum size."
MsgSingleChunk == "Uploads of this length must be sent in a single chunk."
MsgChunkedOffset == "You should not call requestOffset on a chunked direct-to-S3 upload."
MsgIncomplete == "Server has only received %s bytes, but the file should be %s bytes."

(***************************************************************************)
(* The bucket: objects by key, in-progress multipart sessions by id        *)
(***************************************************************************)
EmptyFcn == [x \in {} |-> 0]

InitBucket ==
    [objects |-> ImportObjects,
     mps |-> EmptyFcn,
     nextMp |-> 1]

MakeKey(prefix, uid) == <<prefix, uid>>

RelPath(bucketName, key) == <<bucketName, key>>

\* bucket.new_key(k).set_contents_from_file
SetContents(b, key, len) == [b EXCEPT !.objects = (key :> len) @@ @]

\* bucket.delete_key
DeleteKey(b, key) == [b EXCEPT !.objects = Without(@, key)]

\* bucket.initiate_multipart_upload
InitiateMultipart(b, key) ==
    [b EXCEPT !.mps = (b.nextMp :> [key |-> key, parts |-> EmptyFcn]) @@ @,
              !.nextMp = @ + 1]

\* S3 knows the session (id, key_name)
MpExists(b, id, keyName) == id \in DOMAIN b.mps /\ b.mps[id].key = keyName

\* mp.upload_part_from_file: a part sent again under the same number replaces it
UploadPart(b, id, n, len) ==
    [b EXCEPT !.mps[id].parts = (n :> len) @@ @]

RECURSIVE SumParts(_)
SumParts(parts) ==
    IF DOMAIN parts = {} THEN 0
    ELSE LET n == CHOOSE x \in DOMAIN parts : TRUE
         IN parts[n] + SumParts(Without(parts, n))

\* the names the listed keys and prefixes end in, in the order S3 lists them
NameOrder == <<"", "1", "2", "3", "bar", "ext", "foo", "foobar", "test">>

NameRank(name) == CHOOSE i \in 1..Len(NameOrder) : NameOrder[i] = name

\* the key's name starts with the prefix
StartsWith(key, segs) ==
    Len(key) > Len(segs) /\ SubSeq(key, 1, Len(segs)) = segs

\* one multipart listing holds at most this many sessions (S3: 1000)
PageSize == 1

\* mp.cancel_upload: the session and its parts are gone
CancelMultipart(b, id) == [b EXCEPT !.mps = Without(@, id)]

\* the order of two key names
RECURSIVE KeyLess(_, _)
KeyLess(k1, k2) ==
    IF k1 = <<>> THEN k2 # <<>>
    ELSE IF k2 = <<>> THEN FALSE
    ELSE IF Head(k1) = Head(k2) THEN KeyLess(Tail(k1), Tail(k2))
    ELSE NameRank(Head(k1)) < NameRank(Head(k2))

\* S3 lists multipart sessions by key name, then by upload id
SessionLess(m1, m2) ==
    \/ KeyLess(m1.key_name, m2.key_name)
    \/ m1.key_name = m2.key_name /\ m1.id < m2.id

RECURSIVE SortSessions(_)
SortSessions(S) ==
    IF S = {} THEN <<>>
    ELSE LET m == CHOOSE x \in S : \A y \in S \ {x} : SessionLess(x, y)
         IN <<m>> \o SortSessions(S \ {m})

\* getParams = {}
NoMarker == [none |-> TRUE]

\* bucket.get_all_multipart_uploads(**getParams): one page of the sessions
\* after the markers, and the markers of the next page
GetAllMultipartUploads(b, getParams) ==
    LET all == {[id |-> i, key_name |-> b.mps[i].key] : i \in DOMAIN b.mps}
        rest == SortSessions(IF getParams = NoMarker THEN all
                             ELSE {m \in all : SessionLess(getParams, m)})
        page == SubSeq(rest, 1, IF Len(rest) < PageSize THEN Len(rest)
                                ELSE PageSize)
    IN [uploads |-> page,
        is_truncated |-> Len(rest) > PageSize,
        next |-> IF page = <<>> THEN getParams ELSE page[Len(page)]]

\* mp.complete_upload left out
CompleteMultipart_Skip(b, id) == b

\* mp.complete_upload: the parts become the object, the session ends
CompleteMultipart(b, id) ==
    [b EXCEPT !.objects = (b.mps[id].key :> SumParts(b.mps[id].parts)) @@ @,
              !.mps = Without(@, id)]

(***************************************************************************)
(* Connections: a service string is the sequence of its words, ':' and     *)
(* '/' being tokens of their own                                           *)
(***************************************************************************)
DigitWords == {"443", "9000"}

IsWord(t) == t \notin {":", "/"}

\* re.match("^((https?)://)?([^:/]+)(:([0-9]+))?$", service): the groups of
\* every way the string matches
ServiceGroups(service) ==
    UNION {
      LET pre == IF scheme = "" THEN <<>> ELSE <<scheme, ":", "/", "/">>
          rest == SubSeq(service, Len(pre) + 1, Len(service))
      IN IF Len(service) < Len(pre) \/ SubSeq(service, 1, Len(pre)) # pre
         THEN {}
         ELSE {[scheme |-> scheme, host |-> SubSeq(rest, 1, n),
                port |-> SubSeq(rest, n + 2, Len(rest))] :
                  n \in {m \in 1..Len(rest) :
                           /\ \A i \in 1..m : IsWord(rest[i])
                           /\ \/ m = Len(rest)
                              \/ /\ rest[m + 1] = ":"
                                 /\ Len(rest) >= m + 2
                                 /\ \A i \in (m + 2)..Len(rest) :
                                        rest[i] \in DigitWords}}
      : scheme \in {"", "http", "https"}}

\* makeBotoConnectParams
MakeBotoConnectParams(accessKeyId, secret, service) ==
    LET connect == IF accessKeyId # "" /\ secret # ""
                   THEN [aws_access_key_id |-> accessKeyId,
                         aws_secret_access_key |-> secret]
                   ELSE [anon |-> TRUE]
    IN IF service = <<>> THEN connect
       ELSE LET g == CHOOSE x \in ServiceGroups(service) : TRUE
                c1 == IF g.scheme = "http"
                      THEN Put(connect, "is_secure", FALSE) ELSE connect
                c2 == Put(c1, "host", g.host)
            IN IF g.port # <<>> THEN Put(c2, "port", g.port) ELSE c2

(***************************************************************************)
(* S3AssetstoreAdapter                                                     *)
(***************************************************************************)
\* _getRequestHeaders: the headers that depend on the upload
GetRequestHeaders(upload) ==
    [acl |-> "private", filename |-> upload.name,
     authorizedLength |-> upload.size]

\* headers=None
NoHeaders == [none |-> TRUE]

\* queryParams=None
NoQuery == <<>>

\* the seconds a signed URL stays valid
HMAC_TTL == 120

\* a URL is the sequence of its parts; '?' and '&' are parts of their own
QMark == [qmark |-> TRUE]
Amp == [amp |-> TRUE]

\* url.split('?')
RECURSIVE SplitQMark(_)
SplitQMark(url) ==
    IF \A i \in 1..Len(url) : url[i] # QMark THEN <<url>>
    ELSE LET n == CHOOSE i \in 1..Len(url) :
                     /\ url[i] = QMark
                     /\ \A j \in 1..(i - 1) : url[j] # QMark
         IN <<SubSeq(url, 1, n - 1)>>
              \o SplitQMark(SubSeq(url, n + 1, Len(url)))

\* boto's S3Connection.generate_url with query authentication: the path of
\* the key as it is given (BotoCallingFormat does not quote it), then '?'
\* and the signature parameters
ConnGenerateUrl(config, expires_in, method, bucketName, keyquery, headers) ==
    <<[path |-> <<bucketName, keyquery[1]>>]>>
      \o SubSeq(keyquery, 2, Len(keyquery))
      \o <<QMark,
           [Signature |-> [method |-> method, headers |-> headers,
                           bucket |-> bucketName, key |-> keyquery],
            Expires |-> expires_in,
            AWSAccessKeyId |-> config.aws_access_key_id]>>

\* the clause of _botoGenerateUrl that serves a moto server
IsMoto(config, queryParams) ==
    /\ queryParams = <<"uploads">>
    /\ Has(config, "is_secure") /\ ~config.is_secure
    /\ Has(config, "host") /\ config.host = <<"127.0.0.1">>

\* _botoGenerateUrl for an assetstore whose botoConnect is config: what the
\* signed URL is made from, and in url the URL itself
SignedUrl(config, key, method, headers, queryParams) ==
    LET keyquery == IF queryParams # NoQuery
                    THEN <<key, QMark, [params |-> queryParams]>>
                    ELSE <<key>>
        url == ConnGenerateUrl(config, HMAC_TTL, method, BucketName,
                               keyquery, headers)
        parts == SplitQMark(url)
        merged == IF queryParams # NoQuery /\ Len(parts) = 3
                  THEN IF IsMoto(config, queryParams)
                       THEN parts[1] \o <<QMark>> \o parts[2]
                       ELSE parts[1] \o <<QMark>> \o parts[2]
                              \o <<Amp>> \o parts[3]
                  ELSE url
    IN [bucket |-> BucketName, key |-> key, method |-> method,
        headers |-> headers, query |-> queryParams, url |-> merged]

\* the botoConnect of the assetstore the uploads go to
BotoConnect == MakeBotoConnectParams("access", "secret", <<>>)

\* _botoGenerateUrl
BotoGenerateUrl(key, method, headers, queryParams) ==
    SignedUrl(BotoConnect, key, method, headers, queryParams)

\* chunked = upload['size'] > self.CHUNK_LEN, with the limit itself chunked
IsChunked_AtLimit(size) == size >= CHUNK_LEN

\* chunked = upload['size'] > self.CHUNK_LEN
IsChunked(size) == size > CHUNK_LEN

\* initUpload past its first test: uid is the fresh uuid4 the call draws
S3UploadState(upload, uid) ==
    LET key == MakeKey(Prefix, uid)
        headers == GetRequestHeaders(upload)
        chunked == IsChunked(upload.size)
        method == IF chunked THEN "POST" ELSE "PUT"
        query == IF chunked THEN <<"uploads">> ELSE NoQuery
    IN Put(Put(upload, "behavior", "s3"), "s3",
           [chunked |-> chunked,
            chunkLength |-> CHUNK_LEN,
            relpath |-> RelPath(BucketName, key),
            key |-> key,
            request |-> [method |-> method,
                         url |-> BotoGenerateUrl(key, method, headers, query),
                         headers |-> headers]])

\* initUpload that gives an empty upload its S3 state too
S3InitUpload_Always(upload, uid) == S3UploadState(upload, uid)

\* initUpload
S3InitUpload(upload, uid) ==
    IF upload.size <= 0 THEN upload ELSE S3UploadState(upload, uid)

\* string chunks json.loads or the lookups of info fail on: text that is no
\* JSON, an object without s3UploadId, an object without partNumber
MalformedAcks ==
    {[kind |-> "ack", text |-> "{"],
     [kind |-> "ack", partNumber |-> 1],
     [kind |-> "ack", s3UploadId |-> 1]}

\* _clientUploadChunk: chunk is the acknowledgment as json.loads decodes it
S3ClientUploadChunk(upload, chunk, b) ==
    IF Has(chunk, "text")
    THEN [upload |-> upload, bucket |-> b,
          err |-> RawException(<<"ValueError", "json">>)]
    ELSE IF ~Has(chunk, "partNumber")
    THEN [upload |-> upload, bucket |-> b,
          err |-> RawException(<<"KeyError", "partNumber">>)]
    ELSE IF ~Has(chunk, "s3UploadId")
    THEN [upload |-> upload, bucket |-> b,
          err |-> RawException(<<"KeyError", "s3UploadId">>)]
    ELSE
    LET query == <<"partNumber", chunk.partNumber,
                   "uploadId", chunk.s3UploadId>>
        s3 == Put(Put(Put(upload.s3, "uploadId", chunk.s3UploadId),
                      "partNumber", chunk.partNumber),
                  "request",
                  [method |-> "PUT",
                   url |-> BotoGenerateUrl(upload.s3.key, "PUT", NoHeaders,
                                           query)])
    IN [upload |-> [upload EXCEPT !.s3 = s3], bucket |-> b, err |-> Ok]

\* upload['received'] += key.size, as an assignment of key.size instead
AddReceived_Assign(received, keySize) == keySize

\* upload['received'] += key.size
AddReceived(received, keySize) == received + keySize

\* key.size < upload['size'], as a test that never holds
ShortWrite_Never(keySize, size) == FALSE

\* key.size < upload['size']
ShortWrite(keySize, size) == keySize < size

\* _proxiedUploadChunk: len is the number of bytes the chunk holds
\* upload['s3']['partNumber'] += 1, as a number that stays
NextPartNumber_Same(partNumber) == partNumber

\* upload['s3']['partNumber'] += 1
NextPartNumber(partNumber) == partNumber + 1

S3ProxiedUploadChunk(upload, len, b) ==
    LET s3 == upload.s3 IN
    IF s3.chunked
    THEN IF Has(s3, "uploadId") /\ ~Has(s3, "keyName")
         THEN [upload |-> upload, bucket |-> b,
               err |-> RawException(<<"KeyError", "keyName">>)]
         ELSE LET fresh == ~Has(s3, "uploadId")
                  b1 == IF fresh THEN InitiateMultipart(b, s3.key) ELSE b
                  s3a == IF fresh
                         THEN Put(Put(Put(s3, "uploadId", b.nextMp),
                                      "keyName", s3.key), "partNumber", 0)
                         ELSE s3
                  s3b == [s3a EXCEPT !.partNumber = NextPartNumber(@)]
              IN IF MpExists(b1, s3b.uploadId, s3b.keyName)
                 THEN [upload |-> [upload EXCEPT
                                      !.s3 = s3b,
                                      !.received = AddReceived(@, len)],
                       bucket |-> UploadPart(b1, s3b.uploadId,
                                             s3b.partNumber, len),
                       err |-> Ok]
                 ELSE [upload |-> upload, bucket |-> b1,
                       err |-> RawException(<<"S3ResponseError",
                                              "NoSuchUpload">>)]
    ELSE LET b1 == SetContents(b, s3.key, len) IN
         IF ShortWrite(b1.objects[s3.key], upload.size)
         THEN [upload |-> upload, bucket |-> DeleteKey(b1, s3.key),
               err |-> ValidationException(<<MsgSingleChunk>>)]
         ELSE [upload |-> [upload EXCEPT !.received = len],
               bucket |-> b1, err |-> Ok]

\* uploadChunk: a string chunk is an acknowledgment, anything else is bytes
S3UploadChunk(upload, chunk, b) ==
    IF chunk.kind = "ack"
    THEN S3ClientUploadChunk(upload, chunk, b)
    ELSE S3ProxiedUploadChunk(upload, chunk.len, b)

\* the descriptor requestOffset builds for a single-request upload
ResumeRequest(upload) ==
    LET headers == GetRequestHeaders(upload) IN
    [method |-> "PUT",
     url |-> BotoGenerateUrl(upload.s3.key, "PUT", headers, NoQuery),
     headers |-> headers,
     offset |-> 0]

\* requestOffset that hands a chunked upload a descriptor too
S3RequestOffset_NoChunkedError(upload) ==
    IF upload.received > 0
    THEN [val |-> [offset |-> upload.received], err |-> Ok]
    ELSE [val |-> ResumeRequest(upload), err |-> Ok]

\* requestOffset that signs the initial request again, without its headers
S3RequestOffset_Unsigned(upload) ==
    IF upload.received > 0
    THEN [val |-> [offset |-> upload.received], err |-> Ok]
    ELSE IF upload.s3.chunked
    THEN [val |-> [offset |-> 0],
          err |-> ValidationException(<<MsgChunkedOffset>>)]
    ELSE [val |-> [ResumeRequest(upload) EXCEPT
                       !.url = BotoGenerateUrl(upload.s3.key, "PUT",
                                               NoHeaders, NoQuery)],
          err |-> Ok]

\* requestOffset that refuses every upload no byte was proxied for
S3RequestOffset_Refuse(upload) ==
    IF upload.received > 0
    THEN [val |-> [offset |-> upload.received], err |-> Ok]
    ELSE [val |-> [offset |-> 0],
          err |-> ValidationException(<<MsgChunkedOffset>>)]

\* requestOffset that restarts a proxied upload at 0
S3RequestOffset_Restart(upload) ==
    IF upload.received > 0
    THEN [val |-> [offset |-> 0], err |-> Ok]
    ELSE IF upload.s3.chunked
    THEN [val |-> [offset |-> 0],
          err |-> ValidationException(<<MsgChunkedOffset>>)]
    ELSE [val |-> ResumeRequest(upload), err |-> Ok]

\* requestOffset; the endpoint answers a bare byte count n as {offset: n}
S3RequestOffset(upload) ==
    IF upload.received > 0
    THEN [val |-> [offset |-> upload.received], err |-> Ok]
    ELSE IF upload.s3.chunked
    THEN [val |-> [offset |-> 0],
          err |-> ValidationException(<<MsgChunkedOffset>>)]
    ELSE [val |-> ResumeRequest(upload), err |-> Ok]

\* the locator fields, with the file marked as verified
Stamp_Verified(file, upload) ==
    Put(Put(Put(file, "relpath", upload.s3.relpath),
            "s3Key", upload.s3.key), "s3Verified", TRUE)

\* file['relpath'], file['s3Key'], file['s3Verified']
Stamp(file, upload) ==
    Put(Put(Put(file, "relpath", upload.s3.relpath),
            "s3Key", upload.s3.key), "s3Verified", FALSE)

\* file['s3FinalizeRequest']
CompletionRequest(upload) ==
    LET headers == [contentType |-> "text/plain;charset=UTF-8"] IN
    [method |-> "POST",
     url |-> BotoGenerateUrl(upload.s3.key, "POST", headers,
                             <<"uploadId", upload.s3.uploadId>>),
     headers |-> headers]

\* upload['received'] > 0, as a test that never holds
ProxiedBytes_Never(upload) == FALSE

\* upload['received'] > 0: the data was proxied to S3
ProxiedBytes(upload) == upload.received > 0

\* finalizeUpload past the stamping, for a chunked upload
FinalizeChunked(upload, file, f1, b) ==
    IF ProxiedBytes(upload)
    THEN IF MpExists(b, upload.s3.uploadId, upload.s3.keyName)
         THEN [file |-> f1,
               bucket |-> CompleteMultipart(b, upload.s3.uploadId),
               err |-> Ok]
         ELSE [file |-> file, bucket |-> b,
               err |-> RawException(<<"S3ResponseError", "NoSuchUpload">>)]
    ELSE IF Has(upload.s3, "uploadId")
         THEN [file |-> Put(f1, "s3FinalizeRequest",
                            CompletionRequest(upload)),
               bucket |-> b, err |-> Ok]
         ELSE [file |-> file, bucket |-> b,
               err |-> RawException(<<"KeyError", "uploadId">>)]

\* finalizeUpload that hands every delegated upload a completion request
S3FinalizeUpload_Descriptor(upload, file, b) ==
    IF upload.size <= 0 THEN [file |-> file, bucket |-> b, err |-> Ok]
    ELSE LET f1 == Stamp(file, upload) IN
         IF upload.s3.chunked
         THEN FinalizeChunked(upload, file, f1, b)
         ELSE [file |-> Put(f1, "s3FinalizeRequest",
                            [method |-> "POST", headers |-> NoHeaders,
                             url |-> BotoGenerateUrl(upload.s3.key, "POST",
                                                     NoHeaders, NoQuery)]),
               bucket |-> b, err |-> Ok]

\* finalizeUpload
S3FinalizeUpload(upload, file, b) ==
    IF upload.size <= 0 THEN [file |-> file, bucket |-> b, err |-> Ok]
    ELSE LET f1 == Stamp(file, upload) IN
         IF upload.s3.chunked
         THEN FinalizeChunked(upload, file, f1, b)
         ELSE [file |-> f1, bucket |-> b, err |-> Ok]

\* the File records find(q, limit=2) returns for q = {relpath, assetstoreId}
FindMatching(files, relpath) ==
    {i \in DOMAIN files : Has(files[i], "relpath")
                          /\ files[i].relpath = relpath
                          /\ files[i].store = "s3"}

Min(a, b) == IF a < b THEN a ELSE b

\* matching.count(True) == 1, as a test for any match
OnlyReference_Any(count) == count >= 1

\* matching.count(True) == 1
OnlyReference(count) == count = 1

\* deleteFile: the sequence of events it hands to events.daemon.trigger
S3DeleteFile(file, files) ==
    IF file.size > 0 /\ Has(file, "relpath")
    THEN IF OnlyReference(Min(Cardinality(FindMatching(files, file.relpath)),
                              2))
         THEN <<[bucket |-> BucketName, key |-> file.s3Key]>>
         ELSE <<>>
    ELSE <<>>

\* _deleteFileImpl that leaves the key in place
DeleteFileImpl_Keep(info, b) == b

\* _deleteFileImpl: the daemon's handler for one event
DeleteFileImpl(info, b) ==
    IF info.key \in DOMAIN b.objects THEN DeleteKey(b, info.key) ELSE b

\* what the backend does when asked: nothing goes wrong, or one kind of call
\* fails; a listing fails from its page `at' on
NoFault == [call |-> "none", at |-> 0]

Faults ==
    {NoFault}
        \cup [call : {"lookup", "get_key", "delete_key", "cancel"}, at : {1}]
        \cup [call : {"list"}, at : {1, 2}]

\* _getBucket raising
MsgNoBucket == "Could not connect to S3 bucket."

\* boto.exception.S3ResponseError out of a call
S3ResponseError(call) == RawException(<<"S3ResponseError", call>>)

\* cancelUpload and untrackedUploads agree on what 'the same session' is
SameSession(multipartUpload, upload) ==
    /\ multipartUpload.id = upload.s3.uploadId
    /\ multipartUpload.key_name = upload.s3.key

\* multipartUploads.is_truncated, as if no listing had a second page
IsTruncated_Never(multipartUploads) == FALSE

\* multipartUploads.is_truncated
IsTruncated(multipartUploads) == multipartUploads.is_truncated

\* the test cancelUpload makes on every listed session
CancelMatches(multipartUpload, upload) == SameSession(multipartUpload, upload)

\* the sessions of one page that cancelUpload cancels
MatchingOf(page, upload) ==
    {page[i].id : i \in {j \in DOMAIN page : CancelMatches(page[j], upload)}}

RECURSIVE CancelAll(_, _)
CancelAll(b, ids) ==
    IF ids = {} THEN b
    ELSE LET i == CHOOSE x \in ids : TRUE
         IN CancelAll(CancelMultipart(b, i), ids \ {i})

\* cancelUpload: the while loop over the pages of the multipart listing
RECURSIVE CancelLoop(_, _, _, _, _)
CancelLoop(b, upload, getParams, page, fault) ==
    IF fault.call = "list" /\ fault.at <= page
    THEN [bucket |-> b, err |-> Ok]
    ELSE LET multipartUploads == GetAllMultipartUploads(b, getParams)
             ids == MatchingOf(multipartUploads.uploads, upload)
         IN IF Len(multipartUploads.uploads) = 0
            THEN [bucket |-> b, err |-> Ok]
            ELSE IF ids # {} /\ fault.call = "cancel"
            THEN [bucket |-> b, err |-> S3ResponseError("cancel_upload")]
            ELSE IF ~IsTruncated(multipartUploads)
            THEN [bucket |-> CancelAll(b, ids), err |-> Ok]
            ELSE CancelLoop(CancelAll(b, ids), upload,
                            multipartUploads.next, page + 1, fault)

\* cancelUpload
S3CancelUpload(upload, b, fault) ==
    IF ~Has(upload, "s3") THEN [bucket |-> b, err |-> Ok]
    ELSE IF ~Has(upload.s3, "key") THEN [bucket |-> b, err |-> Ok]
    ELSE IF fault.call = "lookup"
    THEN [bucket |-> b, err |-> RawException(<<"Exception", MsgNoBucket>>)]
    ELSE IF fault.call = "get_key"
    THEN [bucket |-> b, err |-> S3ResponseError("get_key")]
    ELSE LET found == upload.s3.key \in DOMAIN b.objects
             b1 == IF found THEN DeleteKey(b, upload.s3.key) ELSE b
         IN IF found /\ fault.call = "delete_key"
            THEN [bucket |-> b, err |-> S3ResponseError("delete_key")]
            ELSE IF Has(upload.s3, "uploadId")
            THEN CancelLoop(b1, upload, NoMarker, 1, fault)
            ELSE [bucket |-> b1, err |-> Ok]

\* prefix = self.assetstore.get('prefix', ''), with '/' added when not empty
AssetstorePrefix == IF Prefix # "" THEN <<Prefix>> ELSE <<>>

\* _uploadIsKnown
UploadIsKnown(multipartUpload, knownUploads) ==
    \E upload \in knownUploads :
        /\ Has(upload, "s3")
        /\ Has(upload.s3, "uploadId")
        /\ Has(upload.s3, "key")
        /\ SameSession(multipartUpload, upload)

\* the test untrackedUploads makes first on every listed session
IsKnown_Never(multipartUpload, knownUploads) == FALSE

IsKnown(multipartUpload, knownUploads) ==
    UploadIsKnown(multipartUpload, knownUploads)

\* untrackedUploads: the for loop over one page; st holds the list so far,
\* the bucket and the exception raised
RECURSIVE SweepPage(_, _, _, _, _, _)
SweepPage(prefix, st, page, knownUploads, delete, fault) ==
    IF page = <<>> \/ st.err # Ok THEN st
    ELSE LET multipartUpload == Head(page)
             unknown == [s3 |-> [uploadId |-> multipartUpload.id,
                                 key |-> multipartUpload.key_name]]
             st1 ==
                 IF IsKnown(multipartUpload, knownUploads) THEN st
                 ELSE IF ~StartsWith(multipartUpload.key_name, prefix)
                 THEN st
                 ELSE IF ~delete
                 THEN [st EXCEPT !.list = Append(@, unknown)]
                 ELSE IF fault.call = "cancel"
                 THEN [st EXCEPT !.list = Append(@, unknown),
                                 !.err = S3ResponseError("cancel_upload")]
                 ELSE [st EXCEPT
                          !.list = Append(@, unknown),
                          !.bucket = CancelMultipart(@, multipartUpload.id)]
         IN SweepPage(prefix, st1, Tail(page), knownUploads, delete, fault)

\* untrackedUploads: the while loop over the pages
RECURSIVE SweepLoop(_, _, _, _, _, _, _)
SweepLoop(prefix, st, getParams, page, knownUploads, delete, fault) ==
    IF fault.call = "list" /\ fault.at <= page THEN st
    ELSE LET multipartUploads == GetAllMultipartUploads(st.bucket, getParams)
             st1 == SweepPage(prefix, st, multipartUploads.uploads,
                              knownUploads, delete, fault)
         IN IF Len(multipartUploads.uploads) = 0 THEN st
            ELSE IF st1.err # Ok \/ ~IsTruncated(multipartUploads) THEN st1
            ELSE SweepLoop(prefix, st1, multipartUploads.next, page + 1,
                           knownUploads, delete, fault)

\* untrackedUploads of an assetstore whose prefix has the segments prefix
\* (none for the empty prefix)
UntrackedUploadsUnder(prefix, knownUploads, delete, b, fault) ==
    IF fault.call = "lookup"
    THEN [list |-> <<>>, bucket |-> b,
          err |-> RawException(<<"Exception", MsgNoBucket>>)]
    ELSE SweepLoop(prefix, [list |-> <<>>, bucket |-> b, err |-> Ok],
                   NoMarker, 1, knownUploads, delete, fault)

\* untrackedUploads
S3UntrackedUploads(knownUploads, delete, b, fault) ==
    UntrackedUploadsUnder(AssetstorePrefix, knownUploads, delete, b, fault)

(***************************************************************************)
(* Server-proxied adapters (filesystem, GridFS): the server appends the    *)
(* bytes itself and enforces the minimum chunk size                         *)
(***************************************************************************)
FsUploadChunk(upload, chunk, b) ==
    [upload |-> [upload EXCEPT !.received = @ + chunk.len],
     bucket |-> b, err |-> Ok]

FsRequestOffset(upload) == [val |-> [offset |-> upload.received], err |-> Ok]

(***************************************************************************)
(* Upload session manager                                                  *)
(***************************************************************************)
\* the adapter is chosen by the type of the upload's assetstore
AdapterInitUpload(upload, uid) ==
    IF upload.store = "s3" THEN S3InitUpload(upload, uid) ELSE upload

AdapterUploadChunk(upload, chunk, b) ==
    IF upload.store = "s3" THEN S3UploadChunk(upload, chunk, b)
    ELSE FsUploadChunk(upload, chunk, b)

AdapterRequestOffset(upload) ==
    IF upload.store = "s3" THEN S3RequestOffset(upload)
    ELSE FsRequestOffset(upload)

AdapterFinalizeUpload(upload, file, b) ==
    IF upload.store = "s3" THEN S3FinalizeUpload(upload, file, b)
    ELSE [file |-> file, bucket |-> b, err |-> Ok]

AdapterDeleteFile(file, files) ==
    IF file.store = "s3" THEN S3DeleteFile(file, files) ELSE <<>>

AdapterCancelUpload(upload, b, fault) ==
    IF upload.store = "s3" THEN S3CancelUpload(upload, b, fault)
    ELSE [bucket |-> b, err |-> Ok]

\* the minimum chunk size is enforced where the server appends the bytes
MinimumApplies(upload) == upload.store # "s3"

\* the chunk request's checks without the comparison of the offsets
CheckChunk_NoOffset(upload, offset, chunk, minSize) ==
    IF chunk.kind = "bytes" /\ upload.received + chunk.len > upload.size
    THEN ValidationException(<<MsgTooMany>>)
    ELSE IF chunk.kind = "bytes" /\ MinimumApplies(upload)
            /\ upload.received + chunk.len # upload.size
            /\ chunk.len < minSize
    THEN ValidationException(<<MsgTooSmall>>)
    ELSE Ok

\* the chunk request's checks without the limit on the total
CheckChunk_NoLimit(upload, offset, chunk, minSize) ==
    IF upload.received # offset
    THEN ValidationException(<<MsgOffset, upload.received, offset>>)
    ELSE IF chunk.kind = "bytes" /\ MinimumApplies(upload)
            /\ upload.received + chunk.len # upload.size
            /\ chunk.len < minSize
    THEN ValidationException(<<MsgTooSmall>>)
    ELSE Ok

\* the chunk request's checks with the minimum applied to a final chunk too
CheckChunk_FinalToo(upload, offset, chunk, minSize) ==
    IF upload.received # offset
    THEN ValidationException(<<MsgOffset, upload.received, offset>>)
    ELSE IF chunk.kind = "bytes"
            /\ upload.received + chunk.len > upload.size
    THEN ValidationException(<<MsgTooMany>>)
    ELSE IF chunk.kind = "bytes" /\ MinimumApplies(upload)
            /\ chunk.len < minSize
    THEN ValidationException(<<MsgTooSmall>>)
    ELSE Ok

\* checks made on a chunk request before the adapter sees it
CheckChunk(upload, offset, chunk, minSize) ==
    IF upload.received # offset
    THEN ValidationException(<<MsgOffset, upload.received, offset>>)
    ELSE IF chunk.kind = "bytes"
            /\ upload.received + chunk.len > upload.size
    THEN ValidationException(<<MsgTooMany>>)
    ELSE IF chunk.kind = "bytes" /\ MinimumApplies(upload)
            /\ upload.received + chunk.len # upload.size
            /\ chunk.len < minSize
    THEN ValidationException(<<MsgTooSmall>>)
    ELSE Ok

\* items of one folder have distinct names: a taken name gets a counter
ItemIndexes(files, folder, name) ==
    {files[i].item[2] :
         i \in {j \in DOMAIN files : /\ files[j].item[1] = name
                                     /\ files[j].item[3] = folder}}

NewItem(files, folder, name) ==
    <<name,
      CHOOSE k \in 0..Cardinality(DOMAIN files) :
          /\ k \notin ItemIndexes(files, folder, name)
          /\ \A j \in 0..(k - 1) : j \in ItemIndexes(files, folder, name),
      folder>>

\* the File record an upload turns into, before the adapter stamps it
CreateFile(upload, files) ==
    [name |-> upload.name, size |-> upload.size, store |-> upload.store,
     item |-> NewItem(files, UploadFolder, upload.name)]

FinalizeOutcome(upload, b, files) ==
    AdapterFinalizeUpload(upload, CreateFile(upload, files), b)

\* the chunks a client may submit to an upload
Chunks(upload) ==
    [kind : {"bytes"}, len : ChunkLens]
    \cup (IF Has(upload, "s3")
          THEN [kind : {"ack"}, partNumber : AckPartNumbers,
                s3UploadId : AckUploadIds]
          ELSE {})

\* what a chunk request may carry: a chunk, or a string the adapter cannot read
ChunkParams(upload) ==
    Chunks(upload) \cup (IF Has(upload, "s3") THEN MalformedAcks ELSE {})

(***************************************************************************)
(* importData: the walk over bucket.list(importPath, '/'), level by level  *)
(***************************************************************************)
MsgKeyParent == "Keys cannot be imported directly underneath a %s."

\* reuseExisting=True, as False
ReuseExisting_Off == FALSE

\* reuseExisting=True in the createFolder, createItem and createFile calls
ReuseExisting == TRUE

\* parentType != 'folder', as a test that lets every parent through
KeyParentAllowed_Any(parentType) == TRUE

\* parentType != 'folder' raises
KeyParentAllowed(parentType) == parentType = "folder"

\* lstrip('/') of a path given as its tokens, "/" being one
RECURSIVE LStripSlash(_)
LStripSlash(p) ==
    IF p # <<>> /\ Head(p) = "/" THEN LStripSlash(Tail(p)) ELSE p

\* importPath as the head of importData normalises it
ImportPrefix(raw) ==
    LET p == LStripSlash(raw) IN
    IF p # <<>> /\ p[Len(p)] # "/" THEN Append(p, "/") ELSE p

\* the segments of a tokenised path
Segments(p) == SelectSeq(p, LAMBDA t : t # "/")

\* obj.name of a Prefix, as tokens: every segment is followed by "/"
PrefixName(segs) ==
    [i \in 1..(2 * Len(segs)) |->
         IF i % 2 = 1 THEN segs[(i + 1) \div 2] ELSE "/"]

\* obj.name.rstrip('/').rsplit('/', 1)[-1] and obj.name.rsplit('/', 1)[-1]
BaseName(key) == key[Len(key)]

\* bucket.list(prefix, '/'): the keys right under the prefix, and one Prefix
\* for every segment under which deeper keys lie
ListEntries(b, prefix) ==
    LET segs == Segments(prefix)
        n == Len(segs) + 1
        under == {k \in DOMAIN b.objects : StartsWith(k, segs)}
    IN {[kind |-> "key", name |-> k] : k \in {x \in under : Len(x) = n}}
       \cup {[kind |-> "prefix", name |-> SubSeq(k, 1, n)] :
                 k \in {x \in under : Len(x) > n}}

\* S3 lists in the order of the names: "foo" comes before "foo/"
EntryRank(e) ==
    2 * NameRank(BaseName(e.name)) + (IF e.kind = "prefix" THEN 1 ELSE 0)

RECURSIVE SortEntries(_)
SortEntries(S) ==
    IF S = {} THEN <<>>
    ELSE LET e == CHOOSE x \in S : \A y \in S : EntryRank(x) <= EntryRank(y)
         IN <<e>> \o SortEntries(S \ {e})

Listing(b, prefix) == SortEntries(ListEntries(b, prefix))

\* createFolder(reuseExisting): the folders of that name under the parent
ExistingFolders(flds, parent, parentType, name) ==
    {i \in DOMAIN flds : flds[i] = [parentType |-> parentType,
                                    parent |-> parent, name |-> name]}

CreateFolder(flds, parent, parentType, name, reuseExisting) ==
    LET ex == ExistingFolders(flds, parent, parentType, name)
        id == Cardinality(DOMAIN flds)
    IN IF reuseExisting /\ ex # {}
       THEN [folders |-> flds, id |-> CHOOSE i \in ex : TRUE]
       ELSE [folders |-> (id :> [parentType |-> parentType,
                                 parent |-> parent, name |-> name]) @@ flds,
             id |-> id]

\* createItem(reuseExisting): the item of that name in the folder, or a new
\* one
CreateItem(files, folder, name, reuseExisting) ==
    IF reuseExisting /\ 0 \in ItemIndexes(files, folder, name)
    THEN <<name, 0, folder>>
    ELSE NewItem(files, folder, name)

\* createFile(reuseExisting): the records of that name in the item
ExistingFiles(files, item, name) ==
    {i \in DOMAIN files : files[i].item = item /\ files[i].name = name}

\* the body of the loop for one Key with a name, under a folder
ImportKey(st, parent, key, size) ==
    LET name == BaseName(key)
        item == CreateItem(st.files, parent, name, ReuseExisting)
        ex == ExistingFiles(st.files, item, name)
        reuse == ReuseExisting /\ ex # {}
        id == IF reuse THEN CHOOSE i \in ex : TRUE ELSE st.next
        file == IF reuse THEN st.files[id]
                ELSE [name |-> name, size |-> size, store |-> "s3",
                      item |-> item]
    IN [st EXCEPT
           !.files = (id :> Put(Put(file, "s3Key", key), "imported", TRUE))
                     @@ @,
           !.next = IF reuse THEN @ ELSE @ + 1]

\* the loop of importData over the listed entries; an exception ends it
RECURSIVE ImportEntries(_, _, _, _, _)
ImportEntries(st, parent, parentType, entries, b) ==
    IF entries = <<>> \/ st.err # Ok THEN st
    ELSE LET obj == Head(entries)
             name == BaseName(obj.name)
             st1 == [st EXCEPT !.progress = Append(@, obj.name)]
             st2 == IF obj.kind = "prefix"
                    THEN LET f == CreateFolder(st1.folders, parent,
                                               parentType, name,
                                               ReuseExisting)
                         IN ImportEntries(
                                [st1 EXCEPT !.folders = f.folders],
                                f.id, "folder",
                                Listing(b, ImportPrefix(PrefixName(obj.name))),
                                b)
                    ELSE IF name = "" THEN st1
                    ELSE IF ~KeyParentAllowed(parentType)
                    THEN [st1 EXCEPT !.err = ValidationException(
                                                 <<MsgKeyParent, parentType>>)]
                    ELSE ImportKey(st1, parent, obj.name, b.objects[obj.name])
         IN ImportEntries(st2, parent, parentType, Tail(entries), b)

\* importData: st holds the File and folder collections, the messages given
\* to progress.update and the exception raised
S3ImportData(st, parent, parentType, importPath, b) ==
    ImportEntries(st, parent, parentType,
                  Listing(b, ImportPrefix(importPath)), b)

(***************************************************************************)
(* State                                                                   *)
(***************************************************************************)
VARIABLES
    uploads,     \* upload documents by id
    nextUpload,  \* next upload id
    files,       \* File records by id
    nextFile,    \* next file id
    bucket,      \* the S3 bucket
    queue,       \* events handed to the daemon, oldest first
    minChunk,    \* the minimum chunk size setting
    resp,        \* the response to the last request
    handlers,    \* the requests in progress, by worker thread
    hist,        \* history: locators stamped on File records, locators of
                 \* removed File records, keys handed to the daemon,
                 \* uploads a request of which died, number of File
                 \* records persisted for an upload
    folders,     \* folder documents by id
    assetstores  \* assetstore documents by id

vars == <<uploads, nextUpload, files, nextFile, bucket, queue, minChunk, resp,
          handlers, hist, folders, assetstores>>

\* the worker threads that serve requests
Threads == {1, 2}

\* the model stops S3 from opening more than MaxMp multipart sessions
Bounded(b) == b.nextMp <= MaxMp + 1

\* and the chunk requests that overlap from opening more than MaxRaceMp
BoundedRace(b) == b.nextMp <= MaxRaceMp + 1

Idle == [pc |-> "idle"]

Init ==
    /\ uploads = EmptyFcn
    /\ nextUpload = 1
    /\ files = EmptyFcn
    /\ nextFile = 1
    /\ bucket = InitBucket
    /\ queue = <<>>
    /\ minChunk \in MinChunkSizes
    /\ resp = [op |-> "none", err |-> Ok]
    /\ handlers = [h \in Threads |-> Idle]
    /\ hist = [filed |-> {}, unlinked |-> {}, triggered |-> {},
               crashed |-> {}, made |-> EmptyFcn]
    /\ folders = InitFolders
    /\ assetstores = InitAssetstores

(***************************************************************************)
(* Request handlers, each run to completion                                *)
(***************************************************************************)
Filed(h, file) ==
    IF Has(file, "relpath") THEN [h EXCEPT !.filed = @ \cup {file.relpath}]
    ELSE h

Unlinked(h, file) ==
    IF Has(file, "relpath") THEN [h EXCEPT !.unlinked = @ \cup {file.relpath}]
    ELSE h

Triggered(h, events) ==
    [h EXCEPT !.triggered = @ \cup {events[i].key : i \in DOMAIN events}]

Made(h, id) ==
    [h EXCEPT !.made = (id :> IF id \in DOMAIN @ THEN @[id] + 1 ELSE 1) @@ @]

MsgInvalidUpload == "Invalid upload id."

\* the answer to a request that names an upload that does not exist
NotFound(id, op) ==
    /\ resp' = [op |-> op, id |-> id,
                err |-> ValidationException(<<MsgInvalidUpload>>)]
    /\ UNCHANGED <<uploads, nextUpload, files, nextFile, bucket, queue,
                   minChunk, folders, handlers, hist, assetstores>>

\* the ids uploads are given
UploadIds == 1..MaxUploads

\* POST /file: create the upload; an empty file is finalized at once
InitUpload(size, store, name) ==
    LET upload == AdapterInitUpload(
                      [size |-> size, received |-> 0, name |-> name,
                       store |-> store], ToString(nextUpload))
    IN IF size > 0
       THEN /\ nextUpload <= MaxUploads
            /\ uploads' = (nextUpload :> upload) @@ uploads
            /\ nextUpload' = nextUpload + 1
            /\ resp' = [op |-> "init", err |-> Ok, id |-> nextUpload]
            /\ UNCHANGED <<files, nextFile, bucket, queue, minChunk, folders,
                           handlers, hist, assetstores>>
       ELSE LET r == FinalizeOutcome(upload, bucket, files) IN
            /\ nextFile <= MaxFiles
            /\ files' = (nextFile :> r.file) @@ files
            /\ nextFile' = nextFile + 1
            /\ bucket' = r.bucket
            /\ resp' = [op |-> "init", err |-> r.err, id |-> nextFile]
            /\ hist' = Filed(hist, r.file)
            /\ UNCHANGED <<uploads, nextUpload, queue, minChunk, folders,
                           handlers, assetstores>>

\* the session is kept after its File record is persisted
Discard_Keep(ups, id) == ups

\* the session is discarded
Discard(ups, id) == Without(ups, id)

\* finalize upload u against bucket b: stamp and persist the File record and
\* discard the session
Finalize(id, u, b, op) ==
    LET r == FinalizeOutcome(u, b, files) IN
    /\ nextFile <= MaxFiles
    /\ bucket' = r.bucket
    /\ resp' = [op |-> op, err |-> r.err, id |-> id]
    /\ IF r.err = Ok
       THEN /\ files' = (nextFile :> r.file) @@ files
            /\ nextFile' = nextFile + 1
            /\ uploads' = Discard(uploads, id)
            /\ hist' = Made(Filed(hist, r.file), id)
       ELSE /\ uploads' = (id :> u) @@ uploads
            /\ UNCHANGED <<files, nextFile, hist>>

\* what a chunk request does once the adapter accepted the chunk into u
SaveChunk(id, u, b) ==
    IF u.received = u.size
    THEN Finalize(id, u, b, "chunk")
    ELSE /\ uploads' = (id :> u) @@ uploads
         /\ bucket' = b
         /\ resp' = [op |-> "chunk", err |-> Ok, id |-> id]
         /\ UNCHANGED <<files, nextFile, hist>>

\* POST /file/chunk
HandleChunk(id, offset, chunk) ==
    IF id \notin DOMAIN uploads THEN NotFound(id, "chunk") ELSE
    /\ chunk \in ChunkParams(uploads[id])
    /\ LET pre == CheckChunk(uploads[id], offset, chunk, minChunk)
           r == AdapterUploadChunk(uploads[id], chunk, bucket)
       IN IF pre # Ok
          THEN /\ resp' = [op |-> "chunk", err |-> pre, id |-> id]
               /\ UNCHANGED <<uploads, files, nextFile, bucket, hist>>
          ELSE IF r.err # Ok
          THEN /\ resp' = [op |-> "chunk", err |-> r.err, id |-> id]
               /\ bucket' = r.bucket
               /\ UNCHANGED <<uploads, files, nextFile, hist>>
          ELSE SaveChunk(id, r.upload, r.bucket)
    /\ Bounded(bucket')
    /\ UNCHANGED <<nextUpload, queue, minChunk, folders, handlers,
                   assetstores>>

\* GET /file/offset
RequestOffset(id) ==
    IF id \notin DOMAIN uploads THEN NotFound(id, "offset") ELSE
    /\ LET r == AdapterRequestOffset(uploads[id]) IN
       resp' = [op |-> "offset", err |-> r.err, id |-> id, val |-> r.val]
    /\ UNCHANGED <<uploads, nextUpload, files, nextFile, bucket, queue,
                   minChunk, folders, handlers, hist, assetstores>>

\* the completeness test, as one that lets every upload through
Incomplete_Never(u) == FALSE

\* an upload the server appends the bytes of, with bytes still missing
Incomplete(u) == u.received # u.size /\ ~Has(u, "behavior")

\* POST /file/completion
FinalizeUpload(id) ==
    IF id \notin DOMAIN uploads THEN NotFound(id, "completion") ELSE
    /\ LET u == uploads[id] IN
       IF Incomplete(u)
       THEN /\ resp' = [op |-> "completion", id |-> id,
                        err |-> ValidationException(
                                    <<MsgIncomplete, u.received, u.size>>)]
            /\ UNCHANGED <<uploads, files, nextFile, bucket, hist>>
       ELSE Finalize(id, u, bucket, "completion")
    /\ UNCHANGED <<nextUpload, queue, minChunk, folders, handlers,
                   assetstores>>

\* the server dies inside a chunk request: after the adapter's backend
\* calls, or after the session was saved and before it is finalized
CrashInChunk(id, offset, chunk, saved) ==
    /\ id \in DOMAIN uploads
    /\ chunk \in Chunks(uploads[id])
    /\ CheckChunk(uploads[id], offset, chunk, minChunk) = Ok
    /\ LET r == AdapterUploadChunk(uploads[id], chunk, bucket) IN
       /\ r.err = Ok
       /\ bucket' = r.bucket
       /\ uploads' = IF saved THEN (id :> r.upload) @@ uploads ELSE uploads
       /\ saved => r.upload.received = r.upload.size
    /\ <<uploads', bucket'>> # <<uploads, bucket>>
    /\ Bounded(bucket')
    /\ resp' = [op |-> "crash", err |-> Ok, id |-> id]
    /\ hist' = [hist EXCEPT !.crashed = @ \cup {id}]
    /\ UNCHANGED <<nextUpload, files, nextFile, queue, minChunk, folders,
                   handlers, assetstores>>

\* the server dies after the adapter's finalizeUpload returned and before
\* the File record is persisted
CrashInFinalize(id) ==
    /\ id \in DOMAIN uploads
    /\ LET u == uploads[id]
           r == FinalizeOutcome(u, bucket, files)
       IN /\ u.received = u.size \/ Has(u, "behavior")
          /\ r.err = Ok
          /\ bucket' = r.bucket
    /\ bucket' # bucket
    /\ resp' = [op |-> "crash", err |-> Ok, id |-> id]
    /\ hist' = [hist EXCEPT !.crashed = @ \cup {id}]
    /\ UNCHANGED <<uploads, nextUpload, files, nextFile, queue, minChunk,
                   folders, handlers, assetstores>>

\* the client sends the whole file to S3 with the signed PUT request
ClientPut(id) ==
    /\ id \in DOMAIN uploads
    /\ Has(uploads[id], "s3")
    /\ ~uploads[id].s3.chunked
    /\ bucket' = SetContents(bucket, uploads[id].s3.key, uploads[id].size)
    /\ bucket' # bucket
    /\ UNCHANGED <<uploads, nextUpload, files, nextFile, queue, minChunk,
                   folders, resp, handlers, hist, assetstores>>

\* copying a file makes a second record with the same locator
CopyFile(fid) ==
    /\ fid \in DOMAIN files
    /\ nextFile <= MaxFiles + 1
    /\ files' = (nextFile :> [files[fid] EXCEPT
                                 !.item = NewItem(files, files[fid].item[3],
                                                  files[fid].name)])
                @@ files
    /\ nextFile' = nextFile + 1
    /\ resp' = [op |-> "copy", err |-> Ok, id |-> nextFile]
    /\ UNCHANGED <<uploads, nextUpload, bucket, queue, minChunk, folders,
                   handlers, hist, assetstores>>

\* DELETE /file/:id : the adapter is asked first, then the record goes
DeleteFile(fid) ==
    /\ fid \in DOMAIN files
    /\ LET events == AdapterDeleteFile(files[fid], files) IN
       /\ queue' = queue \o events
       /\ hist' = Unlinked(Triggered(hist, events), files[fid])
    /\ files' = Without(files, fid)
    /\ resp' = [op |-> "delete", err |-> Ok, id |-> fid]
    /\ UNCHANGED <<uploads, nextUpload, nextFile, bucket, minChunk, folders,
                   handlers, assetstores>>

\* the daemon thread takes the oldest event
DeleteWorker ==
    /\ queue # <<>>
    /\ bucket' = DeleteFileImpl(Head(queue), bucket)
    /\ queue' = Tail(queue)
    /\ UNCHANGED <<uploads, nextUpload, files, nextFile, minChunk, folders,
                   resp, handlers, hist, assetstores>>

\* the daemon's handler raises (the bucket cannot be reached): the event is
\* logged and dropped, the key stays
DeleteWorkerFails ==
    /\ queue # <<>>
    /\ queue' = Tail(queue)
    /\ UNCHANGED <<uploads, nextUpload, files, nextFile, bucket, minChunk,
                   folders, resp, handlers, hist, assetstores>>

\* what the import finds: the collections as they are, nothing reported
ImportStart ==
    [files |-> files, next |-> nextFile, folders |-> folders,
     progress |-> <<>>, err |-> Ok]

\* POST /assetstore/:id/import: the records made before an exception stay
ImportData(parent, parentType, importPath) ==
    LET st == S3ImportData(ImportStart, parent, parentType, importPath,
                           bucket)
    IN /\ st.next <= MaxFiles + 2
       /\ files' = st.files
       /\ nextFile' = st.next
       /\ folders' = st.folders
       /\ resp' = [op |-> "import", err |-> st.err, id |-> parent,
                   parentType |-> parentType, path |-> importPath,
                   progress |-> st.progress,
                   made |-> (st.next - nextFile)
                            + Cardinality(DOMAIN st.folders)
                            - Cardinality(DOMAIN folders)]
       /\ UNCHANGED <<uploads, nextUpload, bucket, queue, minChunk, handlers,
                      hist, assetstores>>

\* multipart sessions that other users of the bucket open: one of an
\* assetstore with another prefix, one under this assetstore's prefix
ExternalSessions == (11 :> <<"ext", "1">>) @@ (13 :> MakeKey(Prefix, "1"))

ExternalInitiate(id) ==
    /\ id \notin DOMAIN bucket.mps
    /\ bucket' = [bucket EXCEPT
                      !.mps = (id :> [key |-> ExternalSessions[id],
                                      parts |-> EmptyFcn]) @@ @]
    /\ UNCHANGED <<uploads, nextUpload, files, nextFile, queue, minChunk,
                   resp, handlers, hist, folders, assetstores>>

\* the upload is cancelled: the adapter cleans up, then the session goes
CancelUpload(id, fault) ==
    /\ id \in DOMAIN uploads
    /\ LET r == AdapterCancelUpload(uploads[id], bucket, fault) IN
       /\ bucket' = r.bucket
       /\ uploads' = IF r.err = Ok THEN Without(uploads, id) ELSE uploads
       /\ resp' = [op |-> "cancel", err |-> r.err, id |-> id]
    /\ UNCHANGED <<nextUpload, files, nextFile, queue, minChunk, handlers,
                   hist, folders, assetstores>>

\* upload documents the adapter's initUpload never filled in: no 's3'
\* sub-state, or one without a key
BareUploads ==
    {[size |-> 1024, received |-> 0, name |-> "test", store |-> "s3"],
     [size |-> 1024, received |-> 0, name |-> "test", store |-> "s3",
      s3 |-> [chunked |-> FALSE]]}

\* cancelUpload handed such a document
CancelBareUpload(upload, fault) ==
    /\ LET r == S3CancelUpload(upload, bucket, fault) IN
       /\ bucket' = r.bucket
       /\ resp' = [op |-> "cancel", err |-> r.err, id |-> 0]
    /\ UNCHANGED <<uploads, nextUpload, files, nextFile, queue, minChunk,
                   handlers, hist, folders, assetstores>>

\* the upload documents of the assetstore, as the sweep is given them
KnownUploads == {uploads[id] : id \in DOMAIN uploads}

\* GET or DELETE of the uploads no session is known for
UntrackedUploads(delete, fault) ==
    /\ LET r == S3UntrackedUploads(KnownUploads, delete, bucket, fault) IN
       /\ bucket' = r.bucket
       /\ resp' = [op |-> "untracked", err |-> r.err, id |-> 0,
                   val |-> r.list, delete |-> delete]
    /\ UNCHANGED <<uploads, nextUpload, files, nextFile, queue, minChunk,
                   handlers, hist, folders, assetstores>>

\* another client of the bucket writes an object
ExternalPut(key, size) ==
    /\ key \notin DOMAIN bucket.objects
    /\ bucket' = SetContents(bucket, key, size)
    /\ UNCHANGED <<uploads, nextUpload, files, nextFile, queue, minChunk,
                   resp, handlers, hist, folders, assetstores>>

(***************************************************************************)
(* The assetstore collection: validate runs on every save                  *)
(***************************************************************************)
MsgDuplicateName == "An assetstore with that name already exists."
MsgContainsFiles == "You may not delete an assetstore that contains files."

\* the other assetstores keep their flag, as a slip of validate
ClearCurrent_Keep(stores) == stores

\* every assetstore marked current is unmarked
ClearCurrent(stores) ==
    [i \in DOMAIN stores |-> [stores[i] EXCEPT !.current = FALSE]]

\* Assetstore.validate and the save: the name is unique, the first
\* assetstore becomes current, and a current one unmarks the others
SaveAssetstore(stores, id, doc) ==
    IF \E i \in DOMAIN stores \ {id} : stores[i].name = doc.name
    THEN [stores |-> stores,
          err |-> ValidationException(<<MsgDuplicateName, "name">>)]
    ELSE LET current == doc.current
                            \/ ~\E i \in DOMAIN stores : stores[i].current
             others == IF current THEN ClearCurrent(stores) ELSE stores
         IN [stores |-> (id :> [doc EXCEPT !.current = current]) @@ others,
             err |-> Ok]

\* POST /assetstore: a new assetstore does not ask to be current
CreateAssetstore(id, name, type) ==
    /\ id \notin DOMAIN assetstores
    /\ LET r == SaveAssetstore(assetstores, id,
                               [name |-> name, type |-> type,
                                current |-> FALSE])
       IN /\ assetstores' = r.stores
          /\ resp' = [op |-> "assetstore", err |-> r.err, id |-> id]
    /\ UNCHANGED <<uploads, nextUpload, files, nextFile, bucket, queue,
                   minChunk, handlers, hist, folders>>

\* PUT /assetstore/:id with name and current
UpdateAssetstore(id, name, current) ==
    /\ id \in DOMAIN assetstores
    /\ LET r == SaveAssetstore(assetstores, id,
                               [assetstores[id] EXCEPT !.name = name,
                                                       !.current = current])
       IN /\ assetstores' = r.stores
          /\ resp' = [op |-> "assetstore", err |-> r.err, id |-> id]
    /\ UNCHANGED <<uploads, nextUpload, files, nextFile, bucket, queue,
                   minChunk, handlers, hist, folders>>

\* DELETE /assetstore/:id : refused while files are stored in it; when no
\* current assetstore is left, any of the others is made current
DeleteAssetstore(id) ==
    /\ id \in DOMAIN assetstores
    /\ IF \E fid \in DOMAIN files : files[fid].store = assetstores[id].type
       THEN /\ resp' = [op |-> "assetstore", id |-> id,
                        err |-> ValidationException(<<MsgContainsFiles>>)]
            /\ UNCHANGED assetstores
       ELSE LET rest == Without(assetstores, id) IN
            /\ resp' = [op |-> "assetstore", err |-> Ok, id |-> id]
            /\ IF rest = EmptyFcn \/ \E i \in DOMAIN rest : rest[i].current
               THEN assetstores' = rest
               ELSE \E first \in DOMAIN rest :
                       assetstores' = [rest EXCEPT ![first].current = TRUE]
    /\ UNCHANGED <<uploads, nextUpload, files, nextFile, bucket, queue,
                   minChunk, handlers, hist, folders>>

(***************************************************************************)
(* validateInfo                                                            *)
(***************************************************************************)
\* strip('/') of a string given as its tokens
RECURSIVE RStripSlash(_)
RStripSlash(p) ==
    IF p # <<>> /\ p[Len(p)] = "/"
    THEN RStripSlash(SubSeq(p, 1, Len(p) - 1)) ELSE p

StripSlash(p) == RStripSlash(LStripSlash(p))

\* not doc.get(field), for a string field and for the readOnly flag
Falsy(doc, field) == ~Has(doc, field) \/ doc[field] = ""

ReadOnly(doc) == Has(doc, "readOnly") /\ doc.readOnly

\* the tests on the credentials, the access key tested first
MissingCredential_KeyFirst(doc) ==
    IF ReadOnly(doc) THEN ""
    ELSE IF Falsy(doc, "accessKeyId") THEN "accessKeyId"
    ELSE IF Falsy(doc, "secret") THEN "secret"
    ELSE ""

\* if not doc.get('readOnly'): the credential found missing, '' for none
MissingCredential(doc) ==
    IF ReadOnly(doc) THEN ""
    ELSE IF Falsy(doc, "secret") THEN "secret"
    ELSE IF Falsy(doc, "accessKeyId") THEN "accessKeyId"
    ELSE ""

\* if doc['service'] != '' and the pattern does not match
ServiceRejected(service) == service # <<>> /\ ServiceGroups(service) = {}

\* validateInfo; reachable and writable tell what the backend answers to
\* get_bucket and to the write of the test key
S3ValidateInfo(doc0, b, reachable, writable) ==
    LET doc1 == Put(doc0, "prefix",
                    StripSlash(IF Has(doc0, "prefix") THEN doc0.prefix
                               ELSE <<>>))
        doc2 == IF Has(doc1, "service") THEN doc1
                ELSE Put(doc1, "service", <<>>)
        fail(msg, field) ==
            [doc |-> doc0, bucket |-> b,
             err |-> ValidationException(<<msg, field>>)]
    IN IF Falsy(doc1, "bucket")
       THEN fail("Bucket must not be empty.", "bucket")
       ELSE IF MissingCredential(doc1) = "secret"
       THEN fail("Secret key must not be empty.", "secret")
       ELSE IF MissingCredential(doc1) = "accessKeyId"
       THEN fail("Access key ID must not be empty.", "accessKeyId")
       ELSE IF ServiceRejected(doc2.service)
       THEN fail("The service must of the form [http[s]://](host domain)[:(port)].",
                 "service")
       ELSE IF ~Has(doc2, "accessKeyId")
       THEN [doc |-> doc0, bucket |-> b,
             err |-> RawException(<<"KeyError", "accessKeyId">>)]
       ELSE IF ~Has(doc2, "secret")
       THEN [doc |-> doc0, bucket |-> b,
             err |-> RawException(<<"KeyError", "secret">>)]
       ELSE LET doc3 == Put(doc2, "botoConnect",
                            MakeBotoConnectParams(doc2.accessKeyId,
                                                  doc2.secret, doc2.service))
            IN IF ReadOnly(doc3)
               THEN IF reachable
                    THEN [doc |-> doc3, bucket |-> b, err |-> Ok]
                    ELSE fail("Unable to connect to bucket \"%s\".", "bucket")
               ELSE IF reachable /\ writable
               THEN [doc |-> doc3,
                     bucket |-> SetContents(b, Segments(doc3.prefix)
                                                   \o <<"test">>, 0),
                     err |-> Ok]
               ELSE fail("Unable to write into bucket \"%s\".", "bucket")

\* POST /assetstore with type S3: the document is validated, then saved
CreateS3Assetstore(id, name, doc, writable) ==
    /\ id \notin DOMAIN assetstores
    /\ LET v == S3ValidateInfo(doc, bucket, doc.bucket = BucketName, writable)
           r == SaveAssetstore(assetstores, id,
                               Put(Put(Put(v.doc, "name", name),
                                       "type", "s3"), "current", FALSE))
       IN IF r.err # Ok
          THEN /\ resp' = [op |-> "validate", err |-> r.err, id |-> id]
               /\ UNCHANGED <<assetstores, bucket>>
          ELSE IF v.err # Ok
          THEN /\ resp' = [op |-> "validate", err |-> v.err, id |-> id]
               /\ UNCHANGED <<assetstores, bucket>>
          ELSE /\ resp' = [op |-> "validate", err |-> Ok, id |-> id]
               /\ assetstores' = r.stores
               /\ bucket' = v.bucket
    /\ UNCHANGED <<uploads, nextUpload, files, nextFile, queue, minChunk,
                   handlers, hist, folders>>

SetMinimumChunkSize(m) ==
    /\ m # minChunk
    /\ minChunk' = m
    /\ UNCHANGED <<uploads, nextUpload, files, nextFile, bucket, queue, resp,
                   handlers, hist, folders, assetstores>>

(***************************************************************************)
(* Requests running in parallel on the server's worker threads: a chunk    *)
(* request loads the session, calls the adapter, then saves; a delete      *)
(* request asks the adapter, then removes the record.  No lock is taken.   *)
(***************************************************************************)
ChunkLoad(h, id, offset, chunk) ==
    /\ handlers[h] = Idle
    /\ id \in DOMAIN uploads
    /\ chunk \in Chunks(uploads[id])
    /\ LET pre == CheckChunk(uploads[id], offset, chunk, minChunk) IN
       IF pre # Ok
       THEN /\ resp' = [op |-> "chunk", err |-> pre, id |-> id]
            /\ UNCHANGED handlers
       ELSE /\ handlers' = [handlers EXCEPT ![h] =
                               [pc |-> "loaded", id |-> id, offset |-> offset,
                                chunk |-> chunk, upload |-> uploads[id]]]
            /\ UNCHANGED resp
    /\ UNCHANGED <<uploads, nextUpload, files, nextFile, bucket, queue,
                   minChunk, folders, hist, assetstores>>

ChunkAdapter(h) ==
    /\ handlers[h].pc = "loaded"
    /\ LET r == AdapterUploadChunk(handlers[h].upload, handlers[h].chunk,
                                   bucket)
       IN /\ bucket' = r.bucket
          /\ IF r.err # Ok
             THEN /\ resp' = [op |-> "chunk", err |-> r.err,
                              id |-> handlers[h].id]
                  /\ handlers' = [handlers EXCEPT ![h] = Idle]
             ELSE /\ handlers' = [handlers EXCEPT ![h] =
                                     [pc |-> "accepted", id |-> handlers[h].id,
                                      offset |-> handlers[h].offset,
                                      chunk |-> handlers[h].chunk,
                                      upload |-> r.upload]]
                  /\ UNCHANGED resp
    /\ BoundedRace(bucket')
    /\ UNCHANGED <<uploads, nextUpload, files, nextFile, queue, minChunk,
                   folders, hist, assetstores>>

ChunkSave(h) ==
    /\ handlers[h].pc = "accepted"
    /\ SaveChunk(handlers[h].id, handlers[h].upload, bucket)
    /\ handlers' = [handlers EXCEPT ![h] = Idle]
    /\ UNCHANGED <<nextUpload, queue, minChunk, folders, assetstores>>

DeleteQuery(h, fid) ==
    /\ handlers[h] = Idle
    /\ fid \in DOMAIN files
    /\ LET events == AdapterDeleteFile(files[fid], files) IN
       /\ queue' = queue \o events
       /\ hist' = Triggered(hist, events)
    /\ handlers' = [handlers EXCEPT ![h] = [pc |-> "deleting", id |-> fid]]
    /\ UNCHANGED <<uploads, nextUpload, files, nextFile, bucket, minChunk,
                   folders, resp, assetstores>>

DeleteRemove(h) ==
    /\ handlers[h].pc = "deleting"
    /\ files' = Without(files, handlers[h].id)
    /\ hist' = IF handlers[h].id \in DOMAIN files
               THEN Unlinked(hist, files[handlers[h].id]) ELSE hist
    /\ resp' = [op |-> "delete", err |-> Ok, id |-> handlers[h].id]
    /\ handlers' = [handlers EXCEPT ![h] = Idle]
    /\ UNCHANGED <<uploads, nextUpload, nextFile, bucket, queue, minChunk,
                   folders, assetstores>>

(***************************************************************************)
(* Specifications                                                          *)
(***************************************************************************)
\* the upload protocol, one request at a time
Next ==
    \/ \E size \in Sizes, store \in Stores, name \in Names :
           InitUpload(size, store, name)
    \/ \E id \in DOMAIN uploads, offset \in Offsets :
           \E chunk \in Chunks(uploads[id]) : HandleChunk(id, offset, chunk)
    \/ \E id \in DOMAIN uploads : RequestOffset(id)
    \/ \E id \in DOMAIN uploads : FinalizeUpload(id)
    \/ \E id \in DOMAIN uploads : ClientPut(id)
    \/ \E m \in MinChunkSizes : SetMinimumChunkSize(m)

Spec == Init /\ [][Next]_vars

\* S3 uploads on a server that may die inside a request
CrashSizes == {2048, CHUNK_LEN + 1024}

Bytes == [kind : {"bytes"}, len : ChunkLens]

NextCrash ==
    \/ \E size \in CrashSizes, name \in Names : InitUpload(size, "s3", name)
    \/ \E id \in DOMAIN uploads, offset \in Offsets, chunk \in Bytes :
           HandleChunk(id, offset, chunk)
    \/ \E id \in DOMAIN uploads : FinalizeUpload(id)
    \/ \E id \in DOMAIN uploads : ClientPut(id)
    \/ \E id \in DOMAIN uploads, offset \in Offsets, chunk \in Bytes :
           \E saved \in BOOLEAN : CrashInChunk(id, offset, chunk, saved)
    \/ \E id \in DOMAIN uploads : CrashInFinalize(id)

SpecCrash == Init /\ [][NextCrash]_vars

\* the S3 upload protocol at the sizes around CHUNK_LEN, with requests that
\* name uploads already finalized
S3Sizes == {1024, CHUNK_LEN, CHUNK_LEN + 1024}

NextS3 ==
    \/ \E size \in S3Sizes, name \in Names : InitUpload(size, "s3", name)
    \/ \E id \in UploadIds, offset \in Offsets :
           \E chunk \in ChunkParams([s3 |-> TRUE]) :
               HandleChunk(id, offset, chunk)
    \/ \E id \in UploadIds : RequestOffset(id)
    \/ \E id \in UploadIds : FinalizeUpload(id)
    \/ \E id \in DOMAIN uploads : ClientPut(id)

SpecS3 == Init /\ [][NextS3]_vars

\* uploads to a backend the server appends the bytes to
NextProxied ==
    \/ \E size \in Sizes, name \in Names : InitUpload(size, "fs", name)
    \/ \E id \in UploadIds, offset \in Offsets, chunk \in Bytes :
           HandleChunk(id, offset, chunk)
    \/ \E id \in UploadIds : RequestOffset(id)
    \/ \E id \in UploadIds : FinalizeUpload(id)
    \/ \E m \in MinChunkSizes : SetMinimumChunkSize(m)

SpecProxied == Init /\ [][NextProxied]_vars

\* the life of File records: made by whole-file uploads, by copies and by
\* imports, and deleted
FileSizes == {0, 2048}

NextFiles ==
    \/ \E size \in FileSizes, name \in Names : InitUpload(size, "s3", name)
    \/ \E id \in DOMAIN uploads :
           HandleChunk(id, 0, [kind |-> "bytes", len |-> uploads[id].size])
    \/ \E id \in DOMAIN uploads : FinalizeUpload(id)
    \/ \E id \in DOMAIN uploads : ClientPut(id)
    \/ \E fid \in DOMAIN files : CopyFile(fid)
    \/ \E fid \in DOMAIN files : DeleteFile(fid)
    \/ ImportData(UploadFolder, "folder", ImportPath)
    \/ DeleteWorker

SpecFiles == Init /\ [][NextFiles]_vars

\* imports of a bucket that other clients write to: the objects they may
\* write, the paths and the destinations an import may name
ExternalObjects == (<<"foo", "bar", "test">> :> 0) @@ (<<"foo", "">> :> 0)

ImportPaths == {<<>>, <<"/", "foo", "/", "bar">>, <<"foo", "/">>, ImportPath}

ImportParents == {<<UploadFolder, "folder">>, <<0, "user">>}

NextImport ==
    \/ \E p \in ImportParents, path \in ImportPaths :
           ImportData(p[1], p[2], path)
    \/ \E key \in DOMAIN ExternalObjects :
           ExternalPut(key, ExternalObjects[key])

SpecImport == Init /\ [][NextImport]_vars

\* uploads that are cancelled and swept, in a bucket other clients open
\* multipart sessions in, with a backend that may fail
CleanupSizes == {1024, CHUNK_LEN + 1024}

NextCleanup ==
    \/ \E size \in CleanupSizes, name \in Names :
           InitUpload(size, "s3", name)
    \/ \E id \in DOMAIN uploads, offset \in Offsets, chunk \in Bytes :
           HandleChunk(id, offset, chunk)
    \/ \E id \in DOMAIN uploads : ClientPut(id)
    \/ \E id \in DOMAIN ExternalSessions : ExternalInitiate(id)
    \/ \E id \in DOMAIN uploads, fault \in Faults : CancelUpload(id, fault)
    \/ \E upload \in BareUploads, fault \in Faults :
           CancelBareUpload(upload, fault)
    \/ \E delete \in BOOLEAN, fault \in Faults :
           UntrackedUploads(delete, fault)

\* the minimum chunk size plays no part in S3 uploads
InitCleanup == Init /\ minChunk = 0

SpecCleanup == InitCleanup /\ [][NextCleanup]_vars

\* files that are uploaded and deleted while the deletion job may fail, and
\* the sweep for what was left behind
NextOrphan ==
    \/ \E size \in FileSizes, name \in Names : InitUpload(size, "s3", name)
    \/ \E id \in DOMAIN uploads :
           HandleChunk(id, 0, [kind |-> "bytes", len |-> uploads[id].size])
    \/ \E id \in DOMAIN uploads : FinalizeUpload(id)
    \/ \E fid \in DOMAIN files : CopyFile(fid)
    \/ \E fid \in DOMAIN files : DeleteFile(fid)
    \/ DeleteWorker
    \/ DeleteWorkerFails
    \/ \E delete \in BOOLEAN : UntrackedUploads(delete, NoFault)

SpecOrphan == Init /\ [][NextOrphan]_vars

\* the administration of the assetstores
AssetstoreTypes == {"fs", "s3"}

NextAssetstore ==
    \/ \E id \in AssetstoreIds, name \in AssetstoreNames,
          type \in AssetstoreTypes : CreateAssetstore(id, name, type)
    \/ \E id \in AssetstoreIds, name \in AssetstoreNames,
          current \in BOOLEAN : UpdateAssetstore(id, name, current)
    \/ \E id \in AssetstoreIds : DeleteAssetstore(id)

SpecAssetstore == Init /\ [][NextAssetstore]_vars

\* S3 assetstores are created, one at a time, from documents good and bad
\* and deleted again
Services ==
    {<<>>, <<"s3">>, <<"http", ":", "/", "/", "127.0.0.1">>,
     <<"https", ":", "/", "/", "s3", ":", "443">>,
     <<"ftp", ":", "/", "/", "nowhere">>, <<"s3", ":">>,
     <<"s3", ":", "443", "/", "x">>}

\* documents with every field, all of one prefix
FullDocs ==
    [bucket : {"", BucketName, "missing"},
     prefix : {<<"/", "foo", "/", "bar", "/">>},
     readOnly : BOOLEAN, secret : {"", "someSecret"},
     accessKeyId : {"", "someKey"}, service : Services]

Drop(doc, fields) == [f \in DOMAIN doc \ fields |-> doc[f]]

\* and documents of another prefix, or without some of the fields
ValidateDocs ==
    FullDocs \cup {[doc EXCEPT !.prefix = <<Prefix>>] :
                      doc \in {d \in FullDocs : d.service = <<>>}}
             \cup {Drop(doc, fields) :
                      doc \in {d \in FullDocs : d.service = <<"s3">>},
                      fields \in {{"prefix", "service", "readOnly"},
                                  {"accessKeyId"}, {"secret"}}}

NextValidate ==
    \/ /\ DOMAIN assetstores = DOMAIN InitAssetstores
       /\ \E name \in {"Test", "S3 Assetstore"}, doc \in ValidateDocs,
             writable \in BOOLEAN :
              CreateS3Assetstore(Cardinality(DOMAIN assetstores) + 1, name,
                                 doc, writable)
    \/ \E id \in AssetstoreIds \ DOMAIN InitAssetstores :
           DeleteAssetstore(id)

SpecValidate == Init /\ [][NextValidate]_vars

\* the daemon thread keeps running
SpecLive == SpecFiles /\ WF_vars(DeleteWorker)

\* requests overlapping on the worker threads
RaceSizes == {2048, CHUNK_LEN + 1024}
RaceOffsets == {0, 1024}
RaceLens == {1024, 2048}

NextRace ==
    \/ \E size \in RaceSizes, name \in Names : InitUpload(size, "s3", name)
    \/ \E h \in Threads, id \in DOMAIN uploads, offset \in RaceOffsets :
           \E len \in RaceLens :
               ChunkLoad(h, id, offset, [kind |-> "bytes", len |-> len])
    \/ \E h \in Threads : ChunkAdapter(h)
    \/ \E h \in Threads : ChunkSave(h)
    \/ \E fid \in DOMAIN files : CopyFile(fid)
    \/ \E h \in Threads, fid \in DOMAIN files : DeleteQuery(h, fid)
    \/ \E h \in Threads : DeleteRemove(h)
    \/ DeleteWorker

SpecRace == Init /\ [][NextRace]_vars

TypeOK ==
    /\ \A id \in DOMAIN uploads : uploads[id].received \in Nat
    /\ nextUpload \in 1..(MaxUploads + 1)
    /\ nextFile \in 1..(MaxFiles + 2)

(***************************************************************************)
(* Properties                                                              *)
(***************************************************************************)
Rejected(id, msg) ==
    /\ resp'.op = "chunk"
    /\ resp'.id = id
    /\ resp'.err = ValidationException(msg)
    /\ UNCHANGED <<uploads, files, nextFile, bucket, queue, hist>>

Accepted(id) ==
    /\ resp'.op = "chunk"
    /\ resp'.id = id
    /\ resp'.err = Ok

\* C1: over every sequence of initUpload, uploadChunk, requestOffset and
\* finalizeUpload calls, the received count of an upload session never
\* decreases from one state to the next and never exceeds the declared size.
C1_ReceivedMonotoneBounded ==
    [][\A id \in DOMAIN uploads' :
           /\ uploads'[id].received <= uploads'[id].size
           /\ id \in DOMAIN uploads
                  => uploads'[id].received >= uploads[id].received]_vars

\* a chunked S3 upload that has taken proxied bytes and is not complete
C1_Witness ==
    \E id \in DOMAIN uploads :
        /\ Has(uploads[id], "s3") /\ uploads[id].s3.chunked
        /\ uploads[id].received > 0
        /\ uploads[id].received < uploads[id].size
        /\ resp.op = "chunk" /\ resp.err = Ok

\* C2: a chunk whose claimed offset differs from the session's received
\* count fails with the validation error 'Server has received R bytes, but
\* client sent offset O.', the session and everything else stay as they
\* were, and the backend is not touched.
C2_OffsetMismatchRejected ==
    [][\A id \in DOMAIN uploads, offset \in Offsets :
           (offset # uploads[id].received /\ resp'.op = "chunk"
                /\ resp'.id = id
                /\ \E chunk \in Chunks(uploads[id]) :
                       HandleChunk(id, offset, chunk))
           => Rejected(id, <<MsgOffset, uploads[id].received, offset>>)
      ]_vars

C2_Witness ==
    /\ resp.op = "chunk"
    /\ resp.err.kind = "validation"
    /\ resp.err.msg[1] = MsgOffset
    /\ resp.id \in DOMAIN uploads
    /\ uploads[resp.id].received > 0

\* C3: a byte chunk sent at the right offset that is longer than
\* size - received fails with 'Received too many bytes.', received stays,
\* and requestOffset answers afterwards what it answered before, for the
\* server-proxied backends and for S3.
C3_TooManyBytesRejected ==
    [][\A id \in DOMAIN uploads : \A len \in ChunkLens :
           (len > uploads[id].size - uploads[id].received
                /\ HandleChunk(id, uploads[id].received,
                               [kind |-> "bytes", len |-> len]))
           => /\ Rejected(id, <<MsgTooMany>>)
              /\ AdapterRequestOffset(uploads'[id])
                     = AdapterRequestOffset(uploads[id])]_vars

C3_Witness ==
    /\ resp.op = "chunk"
    /\ resp.err = ValidationException(<<MsgTooMany>>)
    /\ resp.id \in DOMAIN uploads
    /\ uploads[resp.id].store = "s3"

\* a byte chunk at the right offset, below the minimum, that neither
\* completes nor overruns the file
ShortChunk(id, len) ==
    /\ len < minChunk
    /\ uploads[id].received + len < uploads[id].size
    /\ HandleChunk(id, uploads[id].received, [kind |-> "bytes", len |-> len])

\* a byte chunk at the right offset that completes the file
FinalChunk(id, len) ==
    /\ uploads[id].received + len = uploads[id].size
    /\ HandleChunk(id, uploads[id].received, [kind |-> "bytes", len |-> len])

\* a byte chunk at the right offset, not below the minimum, that does not
\* complete the file
LongChunk(id, len) ==
    /\ len >= minChunk
    /\ uploads[id].received + len < uploads[id].size
    /\ HandleChunk(id, uploads[id].received, [kind |-> "bytes", len |-> len])

\* C4 (as claimed): a chunk shorter than the configured minimum is rejected
\* with 'Chunk is smaller than the minimum size.' and nothing changes,
\* unless it completes the file; whatever backend the upload goes to.
C4_ShortChunkRejected ==
    [][\A id \in DOMAIN uploads : \A len \in ChunkLens :
           ShortChunk(id, len) => Rejected(id, <<MsgTooSmall>>)]_vars

\* C4 (amended): for an upload to a server-proxied backend (filesystem,
\* GridFS) a chunk shorter than the configured minimum is rejected with
\* 'Chunk is smaller than the minimum size.' and nothing changes, unless it
\* completes the file, and then it is accepted; a chunk that is not shorter
\* than the minimum, as every chunk is when the minimum is 0, is accepted.
C4_ShortChunkRejectedProxied ==
    [][\A id \in DOMAIN uploads : \A len \in ChunkLens :
           MinimumApplies(uploads[id])
           => /\ ShortChunk(id, len) => Rejected(id, <<MsgTooSmall>>)
              /\ FinalChunk(id, len) => Accepted(id) /\ id \notin DOMAIN uploads'
              /\ LongChunk(id, len)
                     => /\ Accepted(id)
                        /\ uploads'[id].received = uploads[id].received + len
      ]_vars

C4_Witness ==
    /\ resp.op = "chunk"
    /\ resp.err = ValidationException(<<MsgTooSmall>>)
    /\ resp.id \in DOMAIN uploads
    /\ uploads[resp.id].store = "fs"

\* two chunk requests the adapter accepted for one upload at one offset
BothAccepted(h1, h2) ==
    /\ h1 # h2
    /\ handlers[h1].pc = "accepted"
    /\ handlers[h2].pc = "accepted"
    /\ handlers[h1].id = handlers[h2].id
    /\ handlers[h1].offset = handlers[h2].offset

\* C5: of two chunk requests for the same upload that carry the same
\* claimed offset and run at the same time, at most one is accepted and
\* advances received and the part number: never have both been accepted on
\* the same stale received.
C5_ChunksSerialized ==
    \A h1 \in Threads, h2 \in Threads : ~BothAccepted(h1, h2)

\* the File records other than fid that share fid's locator
Sharing(fid) == FindMatching(files, files[fid].relpath) \ {fid}

\* C6: deleteFile hands a physical deletion to the daemon only when the
\* record being deleted is the only File record with its locator in the
\* assetstore; deleting one of two records that share a locator enqueues
\* nothing, and no key is handed to the daemon while a record made by an
\* upload or a copy still refers to it.
C6_DeleteOnlyLastReference ==
    /\ [][\A fid \in DOMAIN files :
              DeleteFile(fid)
              => /\ queue' # queue
                     => /\ Has(files[fid], "relpath")
                        /\ Sharing(fid) = {}
                        /\ queue' = Append(queue, [bucket |-> BucketName,
                                                   key |-> files[fid].s3Key])
                 /\ (Has(files[fid], "relpath") /\ Sharing(fid) # {})
                     => queue' = queue]_vars
    /\ [](\A fid \in DOMAIN files :
              (Has(files[fid], "relpath") /\ ~Has(files[fid], "imported"))
              => files[fid].s3Key \notin hist.triggered)

\* one of two records sharing a locator is gone, the other is there, and
\* nothing was handed to the daemon
C6_Witness ==
    /\ resp.op = "delete"
    /\ queue = <<>>
    /\ \E fid \in DOMAIN files :
           /\ Has(files[fid], "relpath")
           /\ files[fid].size > 0
           /\ files[fid].relpath \in hist.unlinked
           /\ files[fid].s3Key \notin hist.triggered

\* C7: once every File record sharing a locator has been removed, a
\* physical-deletion event for that locator has been handed to the daemon,
\* also when the deletions of the last two records interleave and when a
\* copy is made while a deletion runs.
C7_LastDeletionEnqueues ==
    \A r \in hist.unlinked :
        FindMatching(files, r) = {} => r[2] \in hist.triggered

\* C8: deleting a File record whose imported flag is true hands nothing to
\* the daemon, and the daemon never removes an object that importData
\* attached to a File record, also when the import reused a record that a
\* completed upload created.
C8_ImportedNeverEnqueued ==
    /\ [][\A fid \in DOMAIN files :
              (DeleteFile(fid) /\ Has(files[fid], "imported")
                   /\ files[fid].imported)
              => queue' = queue]_vars
    /\ [](DOMAIN ImportObjects \subseteq DOMAIN bucket.objects)

\* the keys an upload or an import can give a File record
Keys ==
    {MakeKey(Prefix, ToString(i)) : i \in 1..MaxUploads}
        \cup DOMAIN ImportObjects

C10_NoDanglingMetadata ==
    \A fid \in DOMAIN files :
        (files[fid].size > 0 /\ Has(files[fid], "s3Key"))
        => files[fid].s3Key \in DOMAIN bucket.objects

\* the request that answered persisted File record fid for an upload the
\* server had taken bytes for
PersistedProxied(fid) ==
    /\ fid \in DOMAIN files' \ DOMAIN files
    /\ resp'.op \in {"chunk", "completion"}
    /\ resp'.id \in DOMAIN uploads
    /\ resp'.op = "completion" => uploads[resp'.id].received > 0

\* C10 (amended): also after a crash between the backend taking bytes and
\* the File record being persisted, a File record of size > 0 that
\* finalizeUpload produced for an upload whose bytes went through the
\* server (received > 0) refers, when it is persisted and from then on, to
\* a key whose object exists in the bucket; a crash persists no File
\* record, so it leaves only objects or multipart sessions without one.  A
\* record finalized for a direct-to-S3 upload (received = 0) is persisted
\* with s3Verified false whether or not the client sent the object.
C10_NoDanglingProxiedMetadata ==
    /\ [][\A fid \in DOMAIN files' :
              /\ PersistedProxied(fid)
                     => /\ files'[fid].s3Key \in DOMAIN bucket'.objects
                        /\ files'[fid].s3Verified = FALSE
              /\ (fid \in DOMAIN files /\ Has(files[fid], "s3Key")
                      /\ files[fid].s3Key \in DOMAIN bucket.objects)
                     => files'[fid].s3Key \in DOMAIN bucket'.objects]_vars
    /\ [][resp'.op = "crash" => files' = files]_vars

\* a File record persisted, with its object, by the request that followed a
\* crash of the same upload
C10_Witness ==
    /\ resp.op \in {"chunk", "completion"}
    /\ resp.err = Ok
    /\ resp.id \in hist.crashed
    /\ \E fid \in DOMAIN files :
           /\ files[fid].size > 0
           /\ files[fid].s3Key \in DOMAIN bucket.objects

\* C11: initUpload of an upload of size > 0 sets behavior 's3', leaves
\* received at 0, records chunkLength = CHUNK_LEN, and chooses multipart
\* exactly when size > CHUNK_LEN: then chunked is true and the request
\* method is POST, otherwise (size = CHUNK_LEN included) chunked is false
\* and the method is PUT.
C11_ChunkedAboveLimit ==
    [][\A id \in DOMAIN uploads' \ DOMAIN uploads :
           LET u == uploads'[id] IN
           (u.store = "s3" /\ u.size > 0)
           => /\ Has(u, "behavior") /\ u.behavior = "s3"
              /\ u.received = 0
              /\ u.s3.chunkLength = CHUNK_LEN
              /\ u.s3.chunked = (u.size > CHUNK_LEN)
              /\ u.s3.request.method
                     = IF u.size > CHUNK_LEN THEN "POST" ELSE "PUT"
              /\ u.s3.request.url.method = u.s3.request.method]_vars

\* an upload of exactly CHUNK_LEN bytes, just created, not chunked
C11_Witness ==
    /\ resp.op = "init"
    /\ resp.id \in DOMAIN uploads
    /\ uploads[resp.id].size = CHUNK_LEN
    /\ ~uploads[resp.id].s3.chunked

\* the File records a step persists
NewFiles == DOMAIN files' \ DOMAIN files

LocatorFields == {"relpath", "s3Key", "s3Verified", "s3FinalizeRequest"}

\* C12: for an upload of size 0 to S3, initUpload returns the upload with
\* neither a behavior tag nor s3 state, the File record is persisted with
\* no locator field, deleting that record hands nothing to the daemon, and
\* none of these touches the bucket.
C12_EmptyFileShortCircuit ==
    /\ [](\A name \in Names :
              LET u == AdapterInitUpload([size |-> 0, received |-> 0,
                                          name |-> name, store |-> "s3"],
                                         ToString(nextUpload))
              IN ~Has(u, "behavior") /\ ~Has(u, "s3"))
    /\ [][\A fid \in NewFiles :
              (resp'.op = "init" /\ files'[fid].store = "s3")
              => /\ files'[fid].size = 0
                 /\ DOMAIN files'[fid] \cap LocatorFields = {}
                 /\ bucket' = bucket
                 /\ queue' = queue]_vars
    /\ [][\A fid \in DOMAIN files :
              (files[fid].size = 0 /\ DeleteFile(fid))
              => queue' = queue /\ bucket' = bucket]_vars

\* an empty file was created and deleted again
C12_Witness ==
    /\ resp.op = "delete"
    /\ nextUpload = 1
    /\ nextFile = 2
    /\ files = EmptyFcn
    /\ queue = <<>>
    /\ bucket = InitBucket

\* C13 (as claimed): on a chunked upload every requestOffset fails with
\* 'You should not call requestOffset on a chunked direct-to-S3 upload.'
\* and leaves the upload unchanged, whatever chunks or acknowledgments were
\* submitted before.
C13_ChunkedOffsetAlwaysFails ==
    [][\A id \in DOMAIN uploads :
           (uploads[id].s3.chunked /\ RequestOffset(id))
           => /\ resp'.err = ValidationException(<<MsgChunkedOffset>>)
              /\ uploads' = uploads]_vars

\* C13 (amended): on a chunked upload for which no byte was proxied
\* (received = 0) every requestOffset fails with 'You should not call
\* requestOffset on a chunked direct-to-S3 upload.' and leaves the upload
\* unchanged, whatever acknowledgments were submitted before; once bytes
\* were proxied (received > 0) requestOffset succeeds and answers received.
C13_ChunkedDelegatedOffsetFails ==
    [][\A id \in DOMAIN uploads :
           (uploads[id].s3.chunked /\ RequestOffset(id))
           => /\ uploads' = uploads
              /\ uploads[id].received = 0
                     => resp'.err = ValidationException(<<MsgChunkedOffset>>)
              /\ uploads[id].received > 0
                     => /\ resp'.err = Ok
                        /\ resp'.val.offset = uploads[id].received]_vars

\* the offset of a chunked upload was refused after an acknowledgment
C13_Witness ==
    /\ resp.op = "offset"
    /\ resp.err = ValidationException(<<MsgChunkedOffset>>)
    /\ resp.id \in DOMAIN uploads
    /\ uploads[resp.id].s3.chunked
    /\ Has(uploads[resp.id].s3, "uploadId")

\* an upload sent with one request, for which the server took no byte
SingleShot(u) == ~u.s3.chunked /\ u.received = 0

\* C14: for an S3 upload that is not chunked and has received = 0,
\* requestOffset succeeds and answers method PUT, a URL signed for the
\* upload's key with the upload's request headers, those headers, and
\* offset 0; the session is unchanged, so the call can be repeated with
\* the same answer until the bytes are sent.
C14_SingleShotResume ==
    [][\A id \in DOMAIN uploads :
           (SingleShot(uploads[id]) /\ RequestOffset(id))
           => /\ resp'.err = Ok
              /\ resp'.val.method = "PUT"
              /\ resp'.val.offset = 0
              /\ resp'.val.headers = GetRequestHeaders(uploads[id])
              /\ resp'.val.url.key = uploads[id].s3.key
              /\ resp'.val.url.method = "PUT"
              /\ resp'.val.url.headers = resp'.val.headers
              /\ UNCHANGED <<uploads, files, bucket, queue>>
              /\ AdapterRequestOffset(uploads'[id]).val = resp'.val]_vars

\* the descriptor was handed out and the object is not in the bucket yet
C14_Witness ==
    /\ resp.op = "offset"
    /\ resp.err = Ok
    /\ resp.id \in DOMAIN uploads
    /\ resp.val = ResumeRequest(uploads[resp.id])
    /\ uploads[resp.id].s3.key \notin DOMAIN bucket.objects

\* C15 (as claimed): for a single-request upload of 1024 bytes, asking for
\* the offset before any byte was proxied raises a validation error.
C15_SingleShotOffsetRaises ==
    [][\A id \in DOMAIN uploads :
           (uploads[id].size = 1024 /\ SingleShot(uploads[id])
                /\ RequestOffset(id))
           => resp'.err.kind = "validation"]_vars

\* C15 (amended): for a single-request upload of 1024 bytes, asking for
\* the offset before any byte was proxied raises no error: the answer is a
\* descriptor with offset 0.
C15_SingleShotOffsetSucceeds ==
    [][\A id \in DOMAIN uploads :
           (uploads[id].size = 1024 /\ SingleShot(uploads[id])
                /\ RequestOffset(id))
           => /\ resp'.err.kind = "ok"
              /\ resp'.val.offset = 0]_vars

\* the offset of a 1024-byte upload was asked for and answered
C15_Witness ==
    /\ resp.op = "offset"
    /\ resp.err.kind = "ok"
    /\ resp.id \in DOMAIN uploads
    /\ uploads[resp.id].size = 1024
    /\ uploads[resp.id].received = 0

\* C16: once bytes were proxied for an upload (received = r > 0),
\* requestOffset answers exactly r and leaves the upload unchanged; r grows
\* by the length of each accepted chunk, and a chunk sent at offset r is
\* not refused for its offset.
C16_ProxiedOffsetIsReceived ==
    [][\A id \in DOMAIN uploads :
           /\ (uploads[id].received > 0 /\ RequestOffset(id))
              => /\ resp'.err = Ok
                 /\ resp'.val = [offset |-> uploads[id].received]
                 /\ uploads' = uploads
                 /\ \A chunk \in Bytes :
                        CheckChunk(uploads'[id], resp'.val.offset, chunk,
                                   minChunk).msg[1] # MsgOffset
           /\ \A len \in ChunkLens :
                  (resp'.op = "chunk" /\ resp'.err = Ok
                       /\ id \in DOMAIN uploads'
                       /\ HandleChunk(id, uploads[id].received,
                                      [kind |-> "bytes", len |-> len]))
                  => AdapterRequestOffset(uploads'[id])
                         = [val |-> [offset |-> uploads[id].received + len],
                            err |-> Ok]]_vars

\* the offset of an upload that took proxied bytes was answered
C16_Witness ==
    /\ resp.op = "offset"
    /\ resp.err = Ok
    /\ resp.id \in DOMAIN uploads
    /\ uploads[resp.id].received > 0
    /\ resp.val = [offset |-> uploads[resp.id].received]

\* the upload a completion or chunk request turned into File record fid
FinalizedAs(fid, id) ==
    /\ fid \in NewFiles
    /\ resp'.op \in {"chunk", "completion"}
    /\ resp'.id = id
    /\ id \in DOMAIN uploads

\* C17: finalizeUpload of an upload of size > 0 stamps the File record
\* with relpath = the upload's path, which is /<bucket>/<key> with the key
\* under the assetstore's prefix, s3Key = the upload's key and s3Verified =
\* false; the record's size and assetstore are the upload's.
C17_FinalizeStampsLocator ==
    [][\A id \in DOMAIN uploads : \A fid \in NewFiles :
           (FinalizedAs(fid, id) /\ uploads[id].size > 0)
           => LET u == uploads[id]
                  f == files'[fid]
              IN /\ f.relpath = u.s3.relpath
                 /\ f.relpath = RelPath(BucketName, u.s3.key)
                 /\ f.relpath[1] = BucketName
                 /\ f.relpath[2][1] = Prefix
                 /\ f.s3Key = u.s3.key
                 /\ f.s3Verified = FALSE
                 /\ f.size = u.size
                 /\ f.store = u.store]_vars

\* a File record stamped by an explicit completion
C17_Witness ==
    /\ resp.op = "completion"
    /\ resp.err = Ok
    /\ \E fid \in DOMAIN files :
           /\ files[fid].size > 0
           /\ files[fid].s3Verified = FALSE
           /\ files[fid].relpath = RelPath(BucketName, files[fid].s3Key)

\* C18 (as claimed): for a single-request upload of 1024 bytes,
\* finalizeUpload with no byte proxied puts a completion request for the
\* client into the File record.
C18_SingleShotCompletionRequest ==
    [][\A id \in DOMAIN uploads : \A fid \in NewFiles :
           (FinalizedAs(fid, id) /\ uploads[id].size = 1024
                /\ SingleShot(uploads[id]))
           => Has(files'[fid], "s3FinalizeRequest")]_vars

\* C18 (amended): for a single-request upload of 1024 bytes,
\* finalizeUpload with no byte proxied puts no completion request into the
\* File record: it stamps the locator and s3Verified = false and makes no
\* backend call.
C18_SingleShotNoCompletionRequest ==
    [][\A id \in DOMAIN uploads : \A fid \in NewFiles :
           (FinalizedAs(fid, id) /\ uploads[id].size = 1024
                /\ SingleShot(uploads[id]) /\ resp'.op = "completion")
           => /\ ~Has(files'[fid], "s3FinalizeRequest")
              /\ files'[fid].s3Key = uploads[id].s3.key
              /\ files'[fid].s3Verified = FALSE
              /\ bucket' = bucket]_vars

\* a 1024-byte upload was completed with no byte proxied or sent
C18_Witness ==
    /\ resp.op = "completion"
    /\ resp.err = Ok
    /\ \E fid \in DOMAIN files :
           /\ files[fid].size = 1024
           /\ ~Has(files[fid], "s3FinalizeRequest")
           /\ files[fid].s3Key \notin DOMAIN bucket.objects

\* the multipart sessions for key that a step ends
Completed(key) ==
    {mp \in DOMAIN bucket'.mps \cup DOMAIN bucket.mps :
         /\ mp \notin DOMAIN bucket'.mps
         /\ mp \in DOMAIN bucket.mps
         /\ bucket.mps[mp].key = key}

\* C19: finalizeUpload of a chunked upload, when it returns the File
\* record, has done one of two things: when bytes were proxied it
\* completed the recorded multipart session in the bucket and added no
\* completion request; when none were (received = 0) it left the bucket
\* alone and added a completion request with method POST and a URL signed
\* for the upload's key and uploadId.
C19_ChunkedCompletion ==
    [][\A id \in DOMAIN uploads : \A fid \in NewFiles :
           (FinalizedAs(fid, id) /\ uploads[id].s3.chunked)
           => LET u == uploads[id]
                  f == files'[fid]
              IN IF resp'.op = "chunk" \/ u.received > 0
                 THEN /\ ~Has(f, "s3FinalizeRequest")
                      /\ Completed(u.s3.key) # {}
                      /\ Completed(u.s3.key) \subseteq {u.s3.uploadId}
                      /\ u.s3.key \in DOMAIN bucket'.objects
                 ELSE /\ bucket' = bucket
                      /\ f.s3FinalizeRequest.method = "POST"
                      /\ f.s3FinalizeRequest.url.method = "POST"
                      /\ f.s3FinalizeRequest.url.key = u.s3.key
                      /\ f.s3FinalizeRequest.url.query
                             = <<"uploadId", u.s3.uploadId>>]_vars

\* a chunked upload was completed by the server after proxied chunks
C19_Witness ==
    /\ resp.op \in {"chunk", "completion"}
    /\ resp.err = Ok
    /\ bucket.mps = EmptyFcn
    /\ \E fid \in DOMAIN files :
           /\ files[fid].size > CHUNK_LEN
           /\ ~Has(files[fid], "s3FinalizeRequest")
           /\ files[fid].s3Key \in DOMAIN bucket.objects

\* C20: when an upload is finalized, by a completion request or by the
\* chunk that brings received to size, exactly one File record with the
\* upload's name and size is persisted and the session is discarded; from
\* then on chunk, offset and completion requests that name the upload fail
\* and change nothing, so no second File record comes from it.
C20_FinalizedOnce ==
    /\ [](\A id \in DOMAIN hist.made :
              hist.made[id] = 1 /\ id \notin DOMAIN uploads)
    /\ [][\A id \in DOMAIN uploads \ DOMAIN uploads' :
              /\ Cardinality(NewFiles) = 1
              /\ \A fid \in NewFiles :
                     /\ files'[fid].name = uploads[id].name
                     /\ files'[fid].size = uploads[id].size
              /\ id \in DOMAIN hist'.made]_vars
    /\ [][\A id \in DOMAIN hist.made :
              (\/ RequestOffset(id)
               \/ FinalizeUpload(id)
               \/ \E offset \in Offsets, chunk \in Chunks([s3 |-> TRUE]) :
                      HandleChunk(id, offset, chunk))
              => /\ resp'.err.kind = "validation"
                 /\ resp'.id = id
                 /\ UNCHANGED <<uploads, files, bucket, queue>>]_vars

\* a request naming a finalized upload was refused
C20_Witness ==
    /\ resp.err = ValidationException(<<MsgInvalidUpload>>)
    /\ resp.id \in DOMAIN hist.made
    /\ \E fid \in DOMAIN files : files[fid].size > 0

\* C21: for an upload to a backend the server appends the bytes to (no
\* behavior tag), a completion request made while received < size fails
\* with a validation error, persists no File record and leaves the session,
\* its received count and the backend as they were; the chunk that holds
\* the remaining bytes is accepted afterwards at offset received.
C21_EarlyCompletionRejected ==
    [][\A id \in DOMAIN uploads :
           LET u == uploads[id] IN
           (~Has(u, "behavior") /\ u.received < u.size /\ FinalizeUpload(id))
           => /\ resp'.op = "completion"
              /\ resp'.err.kind = "validation"
              /\ UNCHANGED <<uploads, files, nextFile, bucket, queue, hist>>
              /\ \A chunk \in Bytes :
                     chunk.len = u.size - u.received
                     => /\ CheckChunk(uploads'[id], u.received, chunk,
                                      minChunk) = Ok
                        /\ LET r == AdapterUploadChunk(uploads'[id], chunk,
                                                       bucket')
                           IN r.err = Ok /\ r.upload.received = u.size
      ]_vars

\* a completion was refused for an upload that holds part of its bytes
C21_Witness ==
    /\ resp.op = "completion"
    /\ resp.err.kind = "validation"
    /\ resp.id \in DOMAIN uploads
    /\ ~Has(uploads[resp.id], "behavior")
    /\ uploads[resp.id].received > 0
    /\ uploads[resp.id].received < uploads[resp.id].size

\* C22: for an S3 upload that is not chunked, a proxied chunk of fewer
\* bytes than the declared size fails with 'Uploads of this length must be
\* sent in a single chunk.', the object just written is gone from the
\* bucket, and received stays 0; the session survives, and one chunk of
\* the full size at offset 0 is accepted afterwards and completes the file.
C22_ShortWriteRejected ==
    [][\A id \in DOMAIN uploads : \A len \in ChunkLens :
           LET u == uploads[id]
               chunk == [kind |-> "bytes", len |-> len]
           IN (~u.s3.chunked /\ resp'.op = "chunk" /\ resp'.id = id
                   /\ HandleChunk(id, 0, chunk))
              => IF len < u.size
                 THEN /\ resp'.err = ValidationException(<<MsgSingleChunk>>)
                      /\ u.s3.key \notin DOMAIN bucket'.objects
                      /\ bucket'.mps = bucket.mps
                      /\ uploads' = uploads
                      /\ uploads'[id].received = 0
                      /\ files' = files
                      /\ LET full == [kind |-> "bytes", len |-> u.size]
                             r == AdapterUploadChunk(uploads'[id], full,
                                                     bucket')
                         IN /\ CheckChunk(uploads'[id], 0, full, minChunk)
                                = Ok
                            /\ r.err = Ok
                            /\ r.upload.received = u.size
                 ELSE len = u.size
                      => /\ resp'.err = Ok
                         /\ id \notin DOMAIN uploads'
                         /\ \E fid \in NewFiles :
                                /\ files'[fid].size = u.size
                                /\ files'[fid].s3Key = u.s3.key
                         /\ bucket'.objects[u.s3.key] = u.size]_vars

\* a short chunk was refused and its object removed, the session is there
C22_Witness ==
    /\ resp.op = "chunk"
    /\ resp.err = ValidationException(<<MsgSingleChunk>>)
    /\ resp.id \in DOMAIN uploads
    /\ uploads[resp.id].received = 0
    /\ uploads[resp.id].s3.key \notin DOMAIN bucket.objects

\* the import a step made, run once more on what the step left
ImportAgain ==
    S3ImportData(ImportStart', resp'.id, resp'.parentType, resp'.path,
                 bucket')

\* C23: importData run a second time with the same parent and import path
\* over the same objects (it lists what the first run listed) leaves the
\* folder and File records, and with them the items, that the first run
\* left: every record is reused, none is made, and no two folders share a
\* parent and a name, no two File records an item and a name.
C23_ImportIdempotent ==
    /\ [][\A p \in ImportParents, path \in ImportPaths :
              ImportData(p[1], p[2], path)
              => /\ ImportAgain.files = files'
                 /\ ImportAgain.folders = folders'
                 /\ ImportAgain.next = nextFile'
                 /\ ImportAgain.err = resp'.err
                 /\ (resp.op = "import" /\ resp.id = p[1]
                         /\ resp.parentType = p[2] /\ resp.path = path
                         /\ resp'.progress = resp.progress)
                    => /\ UNCHANGED <<files, folders, nextFile>>
                       /\ resp'.made = 0]_vars
    /\ [](\A i \in DOMAIN folders, j \in DOMAIN folders :
              folders[i] = folders[j] => i = j)
    /\ [](\A i \in DOMAIN files, j \in DOMAIN files :
              (files[i].item = files[j].item
                   /\ files[i].name = files[j].name) => i = j)

\* a second import of a nested namespace found everything in place
C23_Witness ==
    /\ resp.op = "import"
    /\ resp.err = Ok
    /\ resp.made = 0
    /\ resp.path = <<>>
    /\ Cardinality(DOMAIN folders) >= 4
    /\ Cardinality(DOMAIN files) >= 2

\* the keys with a name that an import lists right under its import path
DirectKeys(path) ==
    {e.name : e \in {x \in ListEntries(bucket, ImportPrefix(path)) :
                         x.kind = "key" /\ BaseName(x.name) # ""}}

\* C24: importData into a parent that is not a folder (a user, a
\* collection) fails with 'Keys cannot be imported directly underneath a
\* <parentType>.' whenever a key with a non-empty base name is listed right
\* under the import path, and then no File record (and so no item) is made
\* or changed for such a key; in every other case it raises nothing.
C24_KeyUnderNonFolderFails ==
    [][\A p \in ImportParents, path \in ImportPaths :
           ImportData(p[1], p[2], path)
           => IF p[2] # "folder" /\ DirectKeys(path) # {}
              THEN /\ resp'.err = ValidationException(<<MsgKeyParent, p[2]>>)
                   /\ \A fid \in DOMAIN files' :
                          files'[fid].s3Key \in DirectKeys(path)
                          => fid \in DOMAIN files /\ files'[fid] = files[fid]
              ELSE resp'.err = Ok]_vars

\* an import into a user's space was refused
C24_Witness ==
    /\ resp.op = "import"
    /\ resp.parentType = "user"
    /\ resp.err = ValidationException(<<MsgKeyParent, "user">>)
    /\ resp.made = 0
    /\ DirectKeys(resp.path) # {}

\* the folders reached from the folders P by the names segs, one per level
RECURSIVE FoldersAt(_, _, _)
FoldersAt(flds, P, segs) ==
    IF segs = <<>> THEN P
    ELSE FoldersAt(flds,
                   {i \in DOMAIN flds : /\ flds[i].parentType = "folder"
                                        /\ flds[i].parent \in P
                                        /\ flds[i].name = Head(segs)},
                   Tail(segs))

\* the keys under an import path, and the prefixes the walk lists for them
KeysUnder(b, path) ==
    {k \in DOMAIN b.objects : StartsWith(k, Segments(ImportPrefix(path)))}

PrefixesUnder(b, path) ==
    UNION {{SubSeq(k, 1, n) :
                n \in (Len(Segments(ImportPrefix(path))) + 1)..(Len(k) - 1)} :
           k \in KeysUnder(b, path)}

\* C25: after a successful importData into a folder, every prefix segment
\* under the import path is exactly one folder, named after the segment
\* and nested as the key path is; every key with a non-empty base name has
\* exactly one File record (in one item) named after the base name in the
\* folder of its prefix, with s3Key = the key, imported = true, size = the
\* object's size, the S3 assetstore and no relpath; a key with an empty
\* base name has no record; and progress got every listed entry once.
C25_ImportMirrorsNamespace ==
    [][\A path \in ImportPaths :
           (ImportData(UploadFolder, "folder", path) /\ resp'.err = Ok)
           => LET n == Len(Segments(ImportPrefix(path))) IN
              /\ \A k \in KeysUnder(bucket, path) :
                     LET dirs == SubSeq(k, n + 1, Len(k) - 1)
                         name == BaseName(k)
                         at == FoldersAt(folders', {UploadFolder}, dirs)
                         recs == {i \in DOMAIN files' :
                                      /\ files'[i].item[1] = name
                                      /\ files'[i].item[3] \in at}
                     IN /\ \A m \in 0..Len(dirs) :
                               Cardinality(FoldersAt(folders', {UploadFolder},
                                                     SubSeq(dirs, 1, m))) = 1
                        /\ IF name = ""
                           THEN \A i \in DOMAIN files' : files'[i].s3Key # k
                           ELSE /\ Cardinality(recs) = 1
                                /\ \A i \in recs :
                                       /\ files'[i].name = name
                                       /\ files'[i].s3Key = k
                                       /\ files'[i].imported = TRUE
                                       /\ files'[i].size = bucket.objects[k]
                                       /\ files'[i].store = "s3"
                                       /\ ~Has(files'[i], "relpath")
              /\ Len(resp'.progress)
                     = Cardinality(KeysUnder(bucket, path))
                       + Cardinality(PrefixesUnder(bucket, path))
              /\ {resp'.progress[i] : i \in DOMAIN resp'.progress}
                     = KeysUnder(bucket, path) \cup PrefixesUnder(bucket, path)
      ]_vars

\* C26: whatever the backend does (bucket unreachable, key lookup or delete
\* failing, multipart listing or cancel failing), cancelUpload returns
\* normally and surfaces no error to its caller.
C26_CancelNeverRaises == resp.op = "cancel" => resp.err = Ok

\* the objects and the multipart sessions of a bucket other than those of
\* the upload's key and of its session
OtherObjects(b, upload) ==
    [k \in DOMAIN b.objects \ {upload.s3.key} |-> b.objects[k]]

OtherSessions(b, upload) ==
    [i \in {j \in DOMAIN b.mps :
                ~(Has(upload.s3, "uploadId") /\ j = upload.s3.uploadId
                  /\ b.mps[j].key = upload.s3.key)} |-> b.mps[i]]

\* C27: with a backend that answers without error, cancelUpload on an
\* upload with key k (and uploadId u if recorded) leaves no object at k and
\* no multipart session (u, k) on any page of the listing, and every other
\* object and session as it was; on an upload document without 's3' or
\* without a key it makes no backend call at all, so it returns normally and
\* leaves the bucket alone even when the bucket cannot be reached.
C27_CancelCleansOwnOnly ==
    [][/\ \A id \in DOMAIN uploads :
              CancelUpload(id, NoFault) /\ uploads[id].store = "s3"
                  => /\ resp'.err = Ok
                     /\ uploads[id].s3.key \notin DOMAIN bucket'.objects
                     /\ bucket'.objects = OtherObjects(bucket, uploads[id])
                     /\ bucket'.mps = OtherSessions(bucket, uploads[id])
                     /\ bucket'.nextMp = bucket.nextMp
        /\ \A upload \in BareUploads, fault \in Faults :
              CancelBareUpload(upload, fault)
                  => resp'.err = Ok /\ bucket' = bucket]_vars

\* a cancel has removed the upload's session, which the listing shows on its
\* second page, and its object; the sessions of others are still there
C27_Witness ==
    /\ resp.op = "cancel" /\ resp.err = Ok /\ resp.id = 1
    /\ 1 \notin DOMAIN uploads
    /\ bucket.nextMp > 1
    /\ DOMAIN bucket.mps = DOMAIN ExternalSessions
    /\ DOMAIN bucket.objects = DOMAIN ImportObjects

\* the sessions of the bucket under the assetstore's prefix that no known
\* upload names by both uploadId and key
Untracked(b, knownUploads) ==
    {i \in DOMAIN b.mps :
        /\ StartsWith(b.mps[i].key, AssetstorePrefix)
        /\ ~\E upload \in knownUploads :
               /\ Has(upload, "s3") /\ Has(upload.s3, "uploadId")
               /\ upload.s3.uploadId = i
               /\ upload.s3.key = b.mps[i].key}

\* C28: with a backend that answers without error, untrackedUploads returns,
\* once each, exactly the multipart sessions of all pages whose key starts
\* with the assetstore's prefix and that no known upload names by both
\* uploadId and key; with delete = false the bucket is unchanged, with
\* delete = true exactly the returned sessions are cancelled, so a second
\* call with the same known uploads returns the empty list.
C28_SweepReportsUnknownSessions ==
    [][\A delete \in BOOLEAN :
           UntrackedUploads(delete, NoFault)
               => LET expected == Untracked(bucket, KnownUploads) IN
                  /\ resp'.err = Ok
                  /\ Len(resp'.val) = Cardinality(expected)
                  /\ {resp'.val[n] : n \in DOMAIN resp'.val}
                         = {[s3 |-> [uploadId |-> i, key |-> bucket.mps[i].key]]
                               : i \in expected}
                  /\ ~delete => bucket' = bucket
                  /\ delete =>
                        /\ bucket'.mps = [i \in DOMAIN bucket.mps \ expected
                                              |-> bucket.mps[i]]
                        /\ bucket'.objects = bucket.objects
                        /\ bucket'.nextMp = bucket.nextMp
                        /\ S3UntrackedUploads(KnownUploads', delete, bucket',
                                              NoFault).list = <<>>]_vars

\* a deleting sweep reported a session opened under the upload's own key by
\* someone else, and left the upload's session and another assetstore's
C28_Witness ==
    /\ resp.op = "untracked" /\ resp.err = Ok /\ resp.delete
    /\ resp.val = <<[s3 |-> [uploadId |-> 13, key |-> MakeKey(Prefix, "1")]]>>
    /\ 13 \notin DOMAIN bucket.mps
    /\ 11 \in DOMAIN bucket.mps
    /\ \E id \in DOMAIN uploads :
           /\ Has(uploads[id].s3, "uploadId")
           /\ MpExists(bucket, uploads[id].s3.uploadId, uploads[id].s3.key)

\* the objects under the assetstore's prefix that neither a File record nor
\* an upload refers to, and that no queued deletion is about to remove
OrphanObjects ==
    {k \in DOMAIN bucket.objects :
        /\ StartsWith(k, AssetstorePrefix)
        /\ ~\E fid \in DOMAIN files :
               Has(files[fid], "s3Key") /\ files[fid].s3Key = k
        /\ ~\E id \in DOMAIN uploads :
               Has(uploads[id], "s3") /\ uploads[id].s3.key = k
        /\ ~\E n \in DOMAIN queue : queue[n].key = k}

\* C29: an object left in the bucket with no File and no upload record, as
\* by a deletion job that failed, is reported by the next untrackedUploads.
C29_SweepReportsOrphanObjects ==
    [][\A delete \in BOOLEAN :
           UntrackedUploads(delete, NoFault)
               => \A k \in OrphanObjects :
                      \E n \in DOMAIN resp'.val : resp'.val[n].s3.key = k]_vars

\* C30: every failure of an adapter operation reaches the caller as one of
\* the defined error kinds, never as a raw backend or library exception:
\* also when a client acknowledgment is malformed or lacks partNumber or
\* s3UploadId, and when a chunked delegated upload is finalized before an
\* acknowledgment recorded an uploadId.
C30_NoRawExceptions == resp.err.kind \in {"ok", "validation"}

CurrentOnes(stores) == {i \in DOMAIN stores : stores[i].current}

\* C31: over every sequence of assetstore create, set-current, edit and
\* delete requests at most one assetstore is current: a new assetstore is
\* not current while another one is, and an assetstore that is set current
\* is the only current one afterwards.
C31_AtMostOneCurrent ==
    [][/\ Cardinality(CurrentOnes(assetstores')) <= 1
       /\ \A id \in DOMAIN assetstores' \ DOMAIN assetstores :
              CurrentOnes(assetstores) # {} => ~assetstores'[id].current
       /\ \A id \in DOMAIN assetstores, name \in AssetstoreNames :
              UpdateAssetstore(id, name, TRUE) /\ resp'.err = Ok
                  => CurrentOnes(assetstores') = {id}]_vars

\* a second assetstore was set current and the first one is still there
C31_Witness ==
    /\ resp.op = "assetstore" /\ resp.err = Ok /\ resp.id = 2
    /\ DOMAIN assetstores = {1, 2, 3}
    /\ CurrentOnes(assetstores) = {2}

\* the service strings of the form [http[s]://]host[:port]
WellFormedServices ==
    {<<"s3">>, <<"http", ":", "/", "/", "127.0.0.1">>,
     <<"https", ":", "/", "/", "s3", ":", "443">>}

Empty(doc, field) == ~Has(doc, field) \/ doc[field] = ""

\* the field the claim has a document rejected for, "" for none; documents
\* without the accessKeyId or the secret field are not ruled on
RejectedFor(doc, writable) ==
    LET readOnly == Has(doc, "readOnly") /\ doc.readOnly IN
    IF Empty(doc, "bucket") THEN "bucket"
    ELSE IF ~readOnly /\ Empty(doc, "secret") THEN "secret"
    ELSE IF ~readOnly /\ Empty(doc, "accessKeyId") THEN "accessKeyId"
    ELSE IF /\ Has(doc, "service") /\ doc.service # <<>>
            /\ doc.service \notin WellFormedServices
    THEN "service"
    ELSE IF ~Has(doc, "accessKeyId") \/ ~Has(doc, "secret") THEN ""
    ELSE IF doc.bucket # BucketName \/ (~readOnly /\ ~writable)
    THEN "bucket"
    ELSE ""

\* C32: validateInfo rejects a document with a validation error naming the
\* field, the tests made in this order: empty bucket, then (unless read-only)
\* missing secret, then missing access key id, then a service string not of
\* the form [http[s]://]host[:port], then a bucket that cannot be reached or
\* written; a rejected document changes neither the bucket nor the
\* assetstores, and an accepted one is stored with its prefix stripped of
\* the slashes at both ends.
C32_ValidationOrder ==
    resp.op = "validate" =>
    /\ \A doc \in ValidateDocs, writable \in BOOLEAN :
          LET v == S3ValidateInfo(doc, bucket, doc.bucket = BucketName,
                                  writable)
              field == RejectedFor(doc, writable)
          IN /\ field # ""
                  => /\ v.err.kind = "validation"
                     /\ v.err.msg[Len(v.err.msg)] = field
             /\ Empty(doc, "bucket")
                  => v.err.msg[1] = "Bucket must not be empty."
             /\ v.err # Ok => v.bucket = bucket
             /\ v.err = Ok
                  => /\ field = ""
                     /\ v.doc.prefix
                           \in {<<>>, <<Prefix>>, <<"foo", "/", "bar">>}
    /\ resp.op = "validate" /\ resp.err # Ok
          => DOMAIN assetstores = DOMAIN InitAssetstores
    /\ resp.op = "validate" /\ resp.err = Ok
          => /\ resp.id \in DOMAIN assetstores
             /\ assetstores[resp.id].prefix
                   \in {<<>>, <<Prefix>>, <<"foo", "/", "bar">>}

\* a document was turned down for its service string, and no assetstore made
C32_Witness ==
    /\ resp.op = "validate"
    /\ resp.err.kind = "validation"
    /\ resp.err.msg[Len(resp.err.msg)] = "service"
    /\ DOMAIN assetstores = DOMAIN InitAssetstores

(***************************************************************************)
(* The signed-URL generator over the connections an assetstore can have    *)
(***************************************************************************)
\* the botoConnect of the assetstores that validateInfo accepts with keys
UrlConfigs ==
    {MakeBotoConnectParams("access", "secret", service) :
       service \in {x \in Services : ServiceGroups(x) # {}} \cup {<<>>}}

UrlKeys == {<<"test", "ab", "cd", "x">>, <<"ext", "test">>}
UrlMethods == {"GET", "PUT", "POST", "DELETE"}
UrlHeaders == {NoHeaders, [acl |-> "private", filename |-> "test",
                           authorizedLength |-> 1024]}
UrlQueries == {NoQuery, <<"uploads">>, <<"uploadId", 1>>,
               <<"partNumber", 1, "uploadId", 1>>}

GenerateUrl(config, key, method, headers, queryParams) ==
    /\ resp' = [op |-> "url", err |-> Ok, config |-> config,
                val |-> SignedUrl(config, key, method, headers, queryParams)]
    /\ UNCHANGED <<uploads, nextUpload, files, nextFile, bucket, queue,
                   minChunk, handlers, hist, folders, assetstores>>

NextUrl ==
    \E config \in UrlConfigs, key \in UrlKeys, method \in UrlMethods,
       headers \in UrlHeaders, queryParams \in UrlQueries :
        GenerateUrl(config, key, method, headers, queryParams)

SpecUrl == Init /\ [][NextUrl]_vars

IsSigned(url) ==
    \E i \in 1..Len(url) :
        /\ Has(url[i], "Signature")
        /\ url[i].Expires = HMAC_TTL

QMarks(url) == Cardinality({i \in 1..Len(url) : url[i] = QMark})

\* C33: every URL the generator returns, for every connection, key, method,
\* header set and extra query string, holds the signature with an expiry of
\* HMAC_TTL seconds, and has one '?' only, the extra query parameters and
\* the signature parameters being joined by '&'
C33_UrlIsSigned ==
    resp.op = "url" =>
        /\ IsSigned(resp.val.url)
        /\ QMarks(resp.val.url) = 1
        /\ resp.val.query # NoQuery =>
              \E i \in 1..Len(resp.val.url) :
                  resp.val.url[i] = [params |-> resp.val.query]

(***************************************************************************)
(* downloadFile                                                            *)
(***************************************************************************)
\* _anonDownloadUrl: the unsigned URL of a key, on the service of the
\* assetstore or on the bucket's host at amazonaws.com
AnonDownloadUrl(service, key) ==
    [bucket |-> BucketName, key |-> key, method |-> "GET",
     headers |-> NoHeaders, query |-> NoQuery,
     url |-> IF service # <<>>
             THEN <<[path |-> <<service, BucketName, key>>]>>
             ELSE <<[path |-> <<<<"https", ":", "/", "/", BucketName,
                                 ".s3.amazonaws.com">>, key>>]>>]

\* urlFn(key=file['s3Key'])
DownloadUrl(assetstore, key) ==
    IF Has(assetstore.botoConnect, "anon") /\ assetstore.botoConnect.anon
    THEN AnonDownloadUrl(assetstore.service, key)
    ELSE SignedUrl(assetstore.botoConnect, key, "GET", NoHeaders, NoQuery)

\* the branch of downloadFile that raises cherrypy.HTTPRedirect
WantsRedirect_Always(file, headers) == headers

WantsRedirect(file, headers) == headers /\ file.size > 0

\* where the piped bytes start in the object requests.get answers with:
\* iter_content is read from its first chunk on
PipeStart(offset) == 0

\* downloadFile: a redirect, or a stream given as the response headers it
\* sets and the positions [from, to) of the object at the key it yields;
\* objects is what the bucket holds when the stream is read
S3DownloadFile(file, offset, headers, assetstore, objects) ==
    IF WantsRedirect(file, headers)
    THEN IF ~Has(file, "s3Key")
         THEN [err |-> RawException(<<"KeyError", "s3Key">>)]
         ELSE [err |-> Ok, kind |-> "redirect",
               url |-> DownloadUrl(assetstore, file.s3Key)]
    ELSE IF headers
    THEN [err |-> Ok, kind |-> "stream",
          headers |-> [ContentLength |-> "0",
                       ContentType |-> "application/octet-stream",
                       ContentDisposition |->
                           [attachment |-> TRUE, filename |-> file.name]],
          from |-> 0, to |-> 0]
    ELSE IF file.size > 0
    THEN IF ~Has(file, "s3Key")
         THEN [err |-> RawException(<<"KeyError", "s3Key">>)]
         ELSE [err |-> Ok, kind |-> "stream", headers |-> NoHeaders,
               url |-> DownloadUrl(assetstore, file.s3Key),
               from |-> PipeStart(offset),
               to |-> IF file.s3Key \in DOMAIN objects
                      THEN objects[file.s3Key] ELSE 0]
    ELSE [err |-> Ok, kind |-> "stream", headers |-> NoHeaders,
          from |-> 0, to |-> 0]

DownloadFile(fid, offset, headers, assetstore) ==
    /\ fid \in DOMAIN files
    /\ resp' = [op |-> "download", id |-> fid, file |-> files[fid],
                offset |-> offset, headers |-> headers,
                val |-> S3DownloadFile(files[fid], offset, headers,
                                       assetstore, bucket.objects),
                err |-> S3DownloadFile(files[fid], offset, headers,
                                       assetstore, bucket.objects).err]
    /\ UNCHANGED <<uploads, nextUpload, files, nextFile, bucket, queue,
                   minChunk, handlers, hist, folders, assetstores>>

\* the assetstores a file is downloaded from: with keys, anonymous, and
\* anonymous on a service of its own
DownloadStores ==
    {[botoConnect |-> BotoConnect, service |-> <<>>],
     [botoConnect |-> MakeBotoConnectParams("", "", <<>>),
      service |-> <<>>],
     [botoConnect |-> MakeBotoConnectParams("", "", <<"s3">>),
      service |-> <<"s3">>]}

DownloadOffsets == {0, 1024, 2048}

NextDownload ==
    \/ \E size \in FileSizes, name \in Names : InitUpload(size, "s3", name)
    \/ \E id \in DOMAIN uploads :
           HandleChunk(id, 0, [kind |-> "bytes", len |-> uploads[id].size])
    \/ \E id \in DOMAIN uploads : FinalizeUpload(id)
    \/ \E id \in DOMAIN uploads : ClientPut(id)
    \/ ImportData(UploadFolder, "folder", ImportPath)
    \/ \E fid \in DOMAIN files, offset \in DownloadOffsets,
          headers \in BOOLEAN, assetstore \in DownloadStores :
           DownloadFile(fid, offset, headers, assetstore)

SpecDownload == Init /\ [][NextDownload]_vars

\* C34: downloadFile chooses by the file size and the headers flag only: an
\* empty file with headers is a zero-length stream with Content-Length '0'
\* and a Content-Disposition naming the file, a non-empty file with headers
\* is a redirect to a URL of the file's key, and without headers the answer
\* is a stream, empty for an empty file
C34_DownloadChoice ==
    resp.op = "download" =>
        /\ resp.err = Ok
        /\ resp.headers /\ resp.file.size = 0 =>
              /\ resp.val.kind = "stream"
              /\ resp.val.to = resp.val.from
              /\ resp.val.headers.ContentLength = "0"
              /\ resp.val.headers.ContentDisposition =
                     [attachment |-> TRUE, filename |-> resp.file.name]
        /\ resp.headers /\ resp.file.size > 0 =>
              /\ resp.val.kind = "redirect"
              /\ resp.val.url.bucket = BucketName
              /\ resp.val.url.key = resp.file.s3Key
              /\ resp.val.url.method = "GET"
        /\ ~resp.headers =>
              /\ resp.val.kind = "stream"
              /\ resp.file.size = 0 => resp.val.to = resp.val.from

C34_Witness ==
    /\ resp.op = "download"
    /\ resp.headers
    /\ resp.file.size = 0
    /\ resp.val.kind = "stream"
    /\ \E fid \in DOMAIN files : files[fid].size > 0

\* C35: a non-empty file downloaded without headers from offset k is
\* streamed from position k of the stored object to its end
C35_StreamFromOffset ==
    /\ resp.op = "download"
    /\ ~resp.headers
    /\ resp.file.size > 0
    /\ resp.offset <= resp.file.size
    /\ resp.err = Ok
    /\ resp.file.s3Key \in DOMAIN bucket.objects
    => /\ resp.val.from = resp.offset
       /\ resp.val.to = bucket.objects[resp.file.s3Key]

(***************************************************************************)
(* Assetstores that share one bucket, each under a prefix of its own       *)
(***************************************************************************)
\* the prefixes of the assetstores, as segments: the empty prefix, two that
\* start with the same letters, and one inside another
SharedPrefixes ==
    {<<>>, <<"foo">>, <<"foobar">>, <<"test">>, <<"test", "foo">>}

\* the multipart sessions the assetstores have in progress, each started by
\* the assetstore with the prefix named and not recorded on this server
SharedSessions ==
    (21 :> [prefix |-> <<>>, key |-> <<"1", "2">>]) @@
    (22 :> [prefix |-> <<"foo">>, key |-> <<"foo", "1", "2">>]) @@
    (23 :> [prefix |-> <<"foobar">>, key |-> <<"foobar", "1", "2">>]) @@
    (24 :> [prefix |-> <<"test">>, key |-> <<"test", "1", "2">>]) @@
    (25 :> [prefix |-> <<"test", "foo">>,
            key |-> <<"test", "foo", "1", "2">>])

SharedInitiate(id) ==
    /\ id \notin DOMAIN bucket.mps
    /\ bucket' = [bucket EXCEPT
                      !.mps = (id :> [key |-> SharedSessions[id].key,
                                      parts |-> EmptyFcn]) @@ @]
    /\ UNCHANGED <<uploads, nextUpload, files, nextFile, queue, minChunk,
                   resp, handlers, hist, folders, assetstores>>

\* untrackedUploads run on the assetstore with the given prefix
SweepAssetstore(prefix, delete) ==
    /\ LET r == UntrackedUploadsUnder(prefix, KnownUploads, delete, bucket,
                                      NoFault) IN
       /\ bucket' = r.bucket
       /\ resp' = [op |-> "sweep", err |-> r.err, id |-> 0,
                   prefix |-> prefix, val |-> r.list, delete |-> delete,
                   before |-> DOMAIN bucket.mps]
    /\ UNCHANGED <<uploads, nextUpload, files, nextFile, queue, minChunk,
                   handlers, hist, folders, assetstores>>

NextShared ==
    \/ \E id \in DOMAIN SharedSessions : SharedInitiate(id)
    \/ \E prefix \in SharedPrefixes, delete \in BOOLEAN :
           SweepAssetstore(prefix, delete)

SpecShared == Init /\ [][NextShared]_vars

\* C36: a sweep of one assetstore neither reports nor cancels a multipart
\* session that another assetstore of the same bucket started under its own
\* prefix, whatever the two prefixes are
C36_SweepOwnAssetstoreOnly ==
    resp.op = "sweep" =>
        \A id \in DOMAIN SharedSessions :
            SharedSessions[id].prefix # resp.prefix =>
                /\ \A n \in DOMAIN resp.val : resp.val[n].s3.uploadId # id
                /\ id \in resp.before => id \in DOMAIN bucket.mps

(***************************************************************************)
(* The sweep run while chunk requests are being served                     *)
(***************************************************************************)
SweepRaceSizes == {CHUNK_LEN + 1024}

NextSweepRace ==
    \/ \E size \in SweepRaceSizes, name \in Names :
           InitUpload(size, "s3", name)
    \/ \E h \in Threads, id \in DOMAIN uploads, offset \in RaceOffsets :
           \E len \in RaceLens :
               ChunkLoad(h, id, offset, [kind |-> "bytes", len |-> len])
    \/ \E h \in Threads : ChunkAdapter(h)
    \/ \E h \in Threads : ChunkSave(h)
    \/ \E delete \in BOOLEAN : UntrackedUploads(delete, NoFault)

SpecSweepRace == Init /\ [][NextSweepRace]_vars

\* the multipart session a chunk request holds for its upload, or the
\* upload record names, is on the backend
SessionAlive(upload) ==
    Has(upload, "s3") /\ Has(upload.s3, "uploadId")
        => MpExists(bucket, upload.s3.uploadId, upload.s3.key)

\* C37: a sweep that is given every persisted upload and deletes never
\* cancels the multipart session of an upload in progress, not even between
\* the initiation of the session and the save of its uploadId
C37_SweepSparesUploadsInProgress ==
    /\ \A id \in DOMAIN uploads : SessionAlive(uploads[id])
    /\ \A h \in Threads :
           handlers[h].pc = "accepted" /\ handlers[h].id \in DOMAIN uploads
               => SessionAlive(handlers[h].upload)

\* the multipart sessions the backend holds for the key of an upload
SessionsOf(upload) ==
    {i \in DOMAIN bucket.mps : bucket.mps[i].key = upload.s3.key}

\* C38: whatever the order and the overlap of the proxied chunk requests on
\* one chunked upload, a multipart session is initiated for it once at most,
\* so every session of its key is the one the upload record names
C38_OneSessionPerUpload ==
    \A id \in DOMAIN uploads :
        Has(uploads[id], "s3") => Cardinality(SessionsOf(uploads[id])) <= 1

\* C39: a chunked upload whose s3 state holds uploadId holds keyName too, so
\* that a proxied chunk or a proxied completion can rebuild the multipart
\* handle, also when acknowledgments and byte chunks are mixed
C39_UploadIdWithKeyName ==
    /\ \A id \in DOMAIN uploads :
           Has(uploads[id], "s3") /\ uploads[id].s3.chunked
               /\ Has(uploads[id].s3, "uploadId")
               => Has(uploads[id].s3, "keyName")
    /\ resp.op \in {"chunk", "completion"}
           => resp.err # RawException(<<"KeyError", "keyName">>)

(***************************************************************************)
(* A chunked upload sent through the server in parts                       *)
(***************************************************************************)
PartSizes == {CHUNK_LEN + 3072}
PartLens == {1024, 2048, CHUNK_LEN}
PartOffsets ==
    {0, 1024, 2048, 3072, CHUNK_LEN, CHUNK_LEN + 1024, CHUNK_LEN + 2048}

\* the backend gives up a multipart session (it was aborted by its owner's
\* lifecycle rule or by another client of the bucket): upload_part_from_file
\* then fails
ExternalAbort(id) ==
    /\ id \in DOMAIN bucket.mps
    /\ bucket' = CancelMultipart(bucket, id)
    /\ UNCHANGED <<uploads, nextUpload, files, nextFile, queue, minChunk,
                   resp, handlers, hist, folders, assetstores>>

NextParts ==
    \/ \E size \in PartSizes, name \in Names : InitUpload(size, "s3", name)
    \/ \E id \in DOMAIN uploads, offset \in PartOffsets, len \in PartLens :
           HandleChunk(id, offset, [kind |-> "bytes", len |-> len])
    \/ \E id \in DOMAIN uploads : RequestOffset(id)
    \/ \E id \in DOMAIN bucket.mps : ExternalAbort(id)

SpecParts == Init /\ [][NextParts]_vars

\* the part number the persisted session holds: none before the first part
PartNumberOf(upload) ==
    IF Has(upload.s3, "partNumber") THEN upload.s3.partNumber ELSE 0

\* the parts of the session the upload names, as the backend holds them
PartsOf(b, upload) == b.mps[upload.s3.uploadId].parts

\* C40: for a chunked upload fed byte chunks only, the k-th accepted chunk
\* goes to the backend as part k, after it s3.partNumber is k and received
\* is the sum of the sizes of the parts 1..k, and a chunk that fails leaves
\* the persisted session as it was
C40_PartsInOrder ==
    /\ [](\A id \in DOMAIN uploads :
              LET u == uploads[id] IN
              /\ ~Has(u.s3, "uploadId") => u.received = 0
              /\ Has(u.s3, "uploadId")
                     /\ MpExists(bucket, u.s3.uploadId, u.s3.key)
                     => /\ DOMAIN PartsOf(bucket, u) = 1..u.s3.partNumber
                        /\ u.received = SumParts(PartsOf(bucket, u)))
    /\ [][\A id \in DOMAIN uploads :
              /\ resp'.op = "chunk" /\ resp'.err # Ok /\ resp' # resp
                     => uploads' = uploads
              /\ id \in DOMAIN uploads' /\ uploads'[id] # uploads[id]
                     => LET k == uploads'[id].s3.partNumber
                            parts == PartsOf(bucket', uploads'[id])
                        IN /\ k = PartNumberOf(uploads[id]) + 1
                           /\ parts[k] = uploads'[id].received
                                             - uploads[id].received
                           /\ \A n \in 1..(k - 1) :
                                  parts[n] = PartsOf(bucket, uploads[id])[n]
                           /\ resp'.op = "chunk" /\ resp'.err = Ok]_vars

C40_Witness ==
    \E id \in DOMAIN uploads :
        /\ Has(uploads[id].s3, "uploadId")
        /\ uploads[id].s3.partNumber = 3
        /\ MpExists(bucket, uploads[id].s3.uploadId, uploads[id].s3.key)
        /\ uploads[id].received = CHUNK_LEN + 2048
        /\ resp.op = "chunk" /\ resp.err # Ok

====
